---- MODULE Spec2Model ----
(***************************************************************************)
(* A model of the learning marketplace's bookkeeping: the payment webhook  *)
(* handler and purchase initiation (paymentController), the progress       *)
(* tracker (progressController over the Progress collection) and the       *)
(* course-content edits that change a course's lecture count              *)
(* (contentController).                                                    *)
(*                                                                         *)
(* Every handler is an async function: each await on a store operation is  *)
(* one atomic step, together with the synchronous code that follows it up  *)
(* to the next await.  Handlers of different requests interleave at these  *)
(* steps.  A document returned by a find is a private copy; save() sends   *)
(* the document's changes to the store: an element pushed on an array is   *)
(* appended to the stored array, an assigned field is set.                 *)
(***************************************************************************)
EXTENDS Integers, Sequences, FiniteSets, TLC

(* ------------------------------ bounds -------------------------------- *)

\* Requests received in one run of each specification; the clock ticks once
\* per request.
MaxPayRequests == 3
MaxSeqRequests == 4
MaxConcRequests == 3
\* Purchase records created in one run.
MaxPurchases == 2
\* Webhook deliveries handled at the same time.
MaxHandlers == 2
\* Progress requests handled at the same time.
MaxProcs == 2
\* Lectures a course may hold in all.
MaxLectures == 3
\* purchaseCourse requests handled at the same time.
MaxBuyers == 2
\* Content edits handled at the same time.
MaxEditors == 2
\* addCourse requests handled at the same time.
MaxAdders == 2
\* registerUser calls handled at the same time.
MaxRegistrars == 2

Users == {"u1", "u2"}
Courses == {"c1", "c2"}
Lectures == {"l1", "l2"}
Chapters == {"ch1", "ch2"}
\* Callers of the content-authoring operations.
Educators == {"e1", "e2"}
\* Identifiers a request may carry: the stored ones and one that is not stored.
ReqUsers == Users \cup {"u0"}
ReqCourses == Courses \cup {"c0"}

Handlers == 1..MaxHandlers
Procs == 1..MaxProcs
Buyers == 1..MaxBuyers
Editors == 1..MaxEditors
Adders == 1..MaxAdders
Registrars == 1..MaxRegistrars

VARIABLES
    courses,      \* Course collection: courseId -> document
    users,        \* User collection: userId -> document
    purchases,    \* Purchase collection: the purchase id is the index
    sessions,     \* checkout sessions held by the payment processor
    purchaseRes,  \* response of the last purchaseCourse request
    buy,          \* purchaseCourse requests being handled: buyer -> its frame
    hook,         \* webhook deliveries being handled: handler -> its frame
    progress,     \* Progress collection: a sequence of documents
    req,          \* progress requests being handled: process -> its frame
    contentRes,   \* response of the last content-authoring request
    edit,         \* content edits being handled: editor -> its frame
    lastOp,       \* history: the last progress or content request that returned
    rate,         \* the rating request being handled: its frame
    average,      \* the last average rating the client computed
    add,          \* addCourse requests being handled: adder -> its frame
    reg,          \* registerUser calls being handled: registrar -> its frame
    now           \* the clock: a tick per request received

vars == <<courses, users, purchases, sessions, purchaseRes, buy, hook, progress,
          req, contentRes, edit, lastOp, rate, average, add, reg, now>>


(* ------------------------------ helpers ------------------------------- *)

\* Number of occurrences of x in the sequence s.
Count(x, s) == Cardinality({i \in 1..Len(s) : s[i] = x})

\* The elements of the sequence s.
Range(s) == {s[i] : i \in 1..Len(s)}

\* Sum of the lengths of the chapterContent arrays of a course document.
RECURSIVE SumLectures(_)
SumLectures(content) ==
    IF content = <<>> THEN 0
    ELSE Len(Head(content).chapterContent) + SumLectures(Tail(content))

(* ----------------------------- documents ------------------------------ *)

\* A request is handled in the first free frame: frames have no identity.
FirstIdle(frames, k) ==
    /\ frames[k].pc = "idle"
    /\ \A j \in DOMAIN frames : j < k => frames[j].pc # "idle"

NoRes == [status |-> 0, body |-> "none"]
\* response.status(400).send(`Webhook Error: ...`)
WebhookError == [status |-> 400, body |-> "Webhook Error"]
\* response.json({ received: true })
Received == [status |-> 200, body |-> "received"]

IdleHook ==
    [pc |-> "idle", type |-> "none", sigOk |-> TRUE, pid |-> 0,
     purchaseData |-> <<>>, userData |-> <<>>, courseData |-> <<>>,
     res |-> NoRes]

EventTypes ==
    {"payment_intent.succeeded", "payment_intent.payment_failed", "other"}

\* An id of no stored purchase: the store never holds more than MaxPurchases.
UnknownPurchaseId == MaxPurchases + 1

\* Purchase.findById(id): the document, or null.
FindPurchaseById(id) ==
    IF id \in 1..Len(purchases) THEN <<purchases[id]>> ELSE <<>>

(* Numbers are IEEE 754 doubles.  A non-negative double is the record       *)
(* [m, e] of value m * 2^e, m a natural number of at most MantissaBits       *)
(* bits.  A natural number that may exceed the integers at hand is the       *)
(* sequence of its digits in base 2^LimbBits, the lowest digit first.        *)

\* Bits of a double's significand.
MantissaBits == 53
\* Bits of a digit.
LimbBits == 15
\* Digits a dividend is extended by, so that the quotient holds more bits
\* than a significand.
ScaleLimbs == 5

Base == 2 ^ LimbBits

Zeros(n) == [i \in 1..n |-> 0]

RECURSIVE LimbsOf(_)
LimbsOf(n) == IF n = 0 THEN <<>> ELSE <<n % Base>> \o LimbsOf(n \div Base)

RECURSIVE ValueOf(_)
ValueOf(x) == IF x = <<>> THEN 0 ELSE Head(x) + Base * ValueOf(Tail(x))

\* The digits without the leading zeros.
TrimLimbs(x) ==
    LET I == {i \in 1..Len(x) : x[i] # 0}
    IN IF I = {} THEN <<>>
       ELSE SubSeq(x, 1, CHOOSE i \in I : \A j \in I : j <= i)

\* The number of bits of x.
BitLength(x) ==
    LET t == TrimLimbs(x)
    IN IF t = <<>> THEN 0
       ELSE LimbBits * (Len(t) - 1) +
            (CHOOSE b \in 1..LimbBits : 2 ^ (b - 1) <= t[Len(t)] /\ t[Len(t)] < 2 ^ b)

LimbAt(x) == IF x = <<>> THEN 0 ELSE Head(x)
Rest(x) == IF x = <<>> THEN <<>> ELSE Tail(x)

\* x * k + carry, for a natural k below Base.
RECURSIVE MulLimbs(_, _, _)
MulLimbs(x, k, carry) ==
    IF x = <<>> THEN LimbsOf(carry)
    ELSE LET v == Head(x) * k + carry
         IN <<v % Base>> \o MulLimbs(Tail(x), k, v \div Base)

\* a + b + carry
RECURSIVE AddLimbs(_, _, _)
AddLimbs(a, b, carry) ==
    IF a = <<>> /\ b = <<>> THEN LimbsOf(carry)
    ELSE LET v == LimbAt(a) + LimbAt(b) + carry
         IN <<v % Base>> \o AddLimbs(Rest(a), Rest(b), v \div Base)

\* a - b - borrow, for a >= b + borrow.
RECURSIVE SubLimbs(_, _, _)
SubLimbs(a, b, borrow) ==
    IF a = <<>> /\ b = <<>> THEN <<>>
    ELSE LET v == LimbAt(a) - LimbAt(b) - borrow
         IN IF v < 0 THEN <<v + Base>> \o SubLimbs(Rest(a), Rest(b), 1)
            ELSE <<v>> \o SubLimbs(Rest(a), Rest(b), 0)

\* -1, 0 or 1 as a is less than, equal to or greater than b.
RECURSIVE CmpLimbs(_, _)
CmpLimbs(a, b) ==
    IF a = <<>> /\ b = <<>> THEN 0
    ELSE LET high == CmpLimbs(Rest(a), Rest(b))
         IN IF high # 0 THEN high
            ELSE IF LimbAt(a) < LimbAt(b) THEN -1
            ELSE IF LimbAt(a) > LimbAt(b) THEN 1 ELSE 0

\* Quotient q and remainder r of x by a natural k below Base.
RECURSIVE DivLimbs(_, _)
DivLimbs(x, k) ==
    IF x = <<>> THEN [q |-> <<>>, r |-> 0]
    ELSE LET high == DivLimbs(Tail(x), k)
             v == Base * high.r + Head(x)
         IN [q |-> <<v \div k>> \o high.q, r |-> v % k]

\* x * 2^s
ShiftLeft(x, s) ==
    Zeros(s \div LimbBits) \o MulLimbs(x, 2 ^ (s % LimbBits), 0)

\* floor(x / 2^s), and whether a bit that is set was dropped.
ShiftRight(x, s) ==
    LET n == s \div LimbBits
        d == DivLimbs(SubSeq(x, n + 1, Len(x)), 2 ^ (s % LimbBits))
    IN [q |-> d.q,
        inexact |-> d.r # 0 \/ \E i \in 1..n : i <= Len(x) /\ x[i] # 0]

\* The double nearest to x * 2^e (plus less than 2^e when sticky), a tie
\* going to the even significand.
RoundToDouble(x, e, sticky) ==
    LET drop == BitLength(x) - MantissaBits
    IN IF BitLength(x) = 0 THEN [m |-> <<>>, e |-> 0]
       ELSE IF drop <= 0 THEN [m |-> TrimLimbs(x), e |-> e]
       ELSE LET s == ShiftRight(x, drop - 1)
                guard == LimbAt(s.q) % 2
                kept == TrimLimbs(DivLimbs(s.q, 2).q)
                above == sticky \/ s.inexact
                up == guard = 1 /\ (above \/ LimbAt(kept) % 2 = 1)
            IN [m |-> IF up THEN AddLimbs(kept, <<1>>, 0) ELSE kept,
                e |-> e + drop]

\* The double of a price of whole cents: the one nearest to cents / 100.
DoubleOfCents(cents) ==
    LET d == DivLimbs(Zeros(ScaleLimbs) \o LimbsOf(cents), 100)
    IN RoundToDouble(d.q, -(LimbBits * ScaleLimbs), d.r # 0)

\* x * k and x / k for a double x and a natural k below Base.
DoubleTimes(x, k) == RoundToDouble(MulLimbs(x.m, k, 0), x.e, FALSE)

DoubleOver(x, k) ==
    LET d == DivLimbs(Zeros(ScaleLimbs) \o x.m, k)
    IN RoundToDouble(d.q, x.e - LimbBits * ScaleLimbs, d.r # 0)

\* a - b: its sign and the double of its magnitude.
DoubleMinus(a, b) ==
    LET e == IF a.e < b.e THEN a.e ELSE b.e
        A == ShiftLeft(a.m, a.e - e)
        B == ShiftLeft(b.m, b.e - e)
    IN IF CmpLimbs(A, B) >= 0
       THEN [neg |-> FALSE, abs |-> RoundToDouble(SubLimbs(A, B, 0), e, FALSE)]
       ELSE [neg |-> TRUE, abs |-> RoundToDouble(SubLimbs(B, A, 0), e, FALSE)]

\* x.toFixed(2) for a double x below 2^52, in cents: the integer n for which
\* n / 100 - x is nearest to zero, the larger one of two: floor(100 x + 1/2).
ToFixedCents(x) ==
    LET n == AddLimbs(MulLimbs(x.m, 200, 0), ShiftLeft(<<1>>, -x.e), 0)
    IN ValueOf(TrimLimbs(ShiftRight(n, 1 - x.e).q))

\* The double of a natural n below 2^53.
DoubleOfNat(n) == [m |-> LimbsOf(n), e |-> 0]

\* Math.round(x) for a double x that is not negative: floor(x + 1/2), taken
\* of the exact value of the double.
MathRound(x) ==
    IF x.e >= 0 THEN ValueOf(ShiftLeft(x.m, x.e))
    ELSE LET n == AddLimbs(MulLimbs(x.m, 2, 0), ShiftLeft(<<1>>, -x.e), 0)
         IN ValueOf(TrimLimbs(ShiftRight(n, 1 - x.e).q))

\* Math.round((x / y) * 100) for naturals x, y with 0 < y < Base: the
\* quotient is the nearest double, the product the double nearest to a
\* hundred times that double, and Math.round rounds the double it is given
\* (23 / 40 gives 57, since (23 / 40) * 100 is 57.49999999999999).
MathRoundPercent(x, y) ==
    MathRound(DoubleTimes(DoubleOver(DoubleOfNat(x), y), 100))

\* The values of MathRoundPercent(x, y) for x in 0..n, in this order.
RECURSIVE PercentRow(_, _)
PercentRow(n, y) ==
    IF n < 0 THEN <<>>
    ELSE Append(PercentRow(n - 1, y), MathRoundPercent(n, y))

\* The rows of y in 1..m, in this order.
RECURSIVE PercentRows(_, _)
PercentRows(n, m) ==
    IF m = 0 THEN <<>>
    ELSE Append(PercentRows(n, m - 1), PercentRow(n, m))

\* The values for the counts of completed lectures and the lecture totals
\* of the specifications, computed once.
PercentMemo == PercentRows(MaxSeqRequests, MaxLectures)

\* Math.round((x / y) * 100), looked up where it was computed before.
RoundPercent(x, y) ==
    IF y <= Len(PercentMemo) /\ x < Len(PercentMemo[y])
    THEN PercentMemo[y][x + 1]
    ELSE MathRoundPercent(x, y)

\* (coursePrice - discount * coursePrice / 100).toFixed(2), in cents, for a
\* price in whole cents: each operation gives the nearest double, and
\* toFixed rounds the double it is given.
ToFixed2(price, discount) ==
    LET coursePrice == DoubleOfCents(price)
        amount == DoubleMinus(coursePrice,
                      DoubleOver(DoubleTimes(coursePrice, discount), 100))
    IN IF amount.neg THEN -ToFixedCents(amount.abs)
       ELSE ToFixedCents(amount.abs)

\* Math.floor(amount) * 100 for an amount in cents: whole dollars, as cents.
UnitAmount(amount) == (amount \div 100) * 100

(* ------------------------ paymentController --------------------------- *)

\* NewPurchase with a fault: the purchase is created completed.
NewPurchaseCompleted(c, u, amount) ==
    [courseId |-> c, userId |-> u, amount |-> amount, status |-> "completed"]

\* const purchaseData = { courseId, userId, amount, status: 'pending' }
NewPurchase(c, u, amount) ==
    [courseId |-> c, userId |-> u, amount |-> amount, status |-> "pending"]

\* The frame of a purchaseCourse call.
IdleBuy ==
    [pc |-> "idle", userId |-> "none", courseId |-> "none", courseData |-> <<>>,
     purchaseData |-> <<>>, newPurchase |-> 0]

\* A user document has the enrolledCourses array the controllers read and
\* push to.
HasEnrolledCourses(doc) == "enrolledCourses" \in DOMAIN doc

\* Model.findById(id): the document of the id, or none.
FindById(collection, id) ==
    IF id \in DOMAIN collection THEN <<collection[id]>> ELSE <<>>

\* purchaseCourse is received: const courseData = await Course.findById(courseId);
\* the course is read, then the user is asked for.
PurchaseCourse(b, u, c) ==
    /\ FirstIdle(buy, b)
    /\ now' = now + 1
    /\ buy' = [buy EXCEPT ![b] =
          [IdleBuy EXCEPT !.userId = u, !.courseId = c,
                          !.courseData = FindById(courses, c),
                          !.pc = "findUser"]]
    /\ UNCHANGED <<courses, users, purchases, sessions, purchaseRes, hook,
                   progress, req, contentRes, lastOp, rate, average, add, edit, reg>>

\* const userData = await User.findById(userId): without the user or the
\* course the call answers 'Data Not Found'; else the purchase data is made
\* from the course read, and Purchase.create is called.
PurchaseFindUser(b) ==
    /\ buy[b].pc = "findUser"
    /\ LET f == buy[b]
           userData == FindById(users, f.userId)
       IN IF userData = <<>> \/ f.courseData = <<>>
          THEN /\ purchaseRes' = [success |-> FALSE, body |-> "Data Not Found"]
               /\ buy' = [buy EXCEPT ![b] = IdleBuy]
          ELSE /\ purchaseRes' = purchaseRes
               /\ buy' = [buy EXCEPT
                     ![b].purchaseData =
                         <<NewPurchase(f.courseId, f.userId,
                                       ToFixed2(f.courseData[1].coursePrice,
                                                f.courseData[1].discount))>>,
                     ![b].pc = "create"]
    /\ UNCHANGED <<courses, users, purchases, sessions, hook, progress, req,
                   contentRes, lastOp, now, rate, average, add, edit, reg>>

\* const newPurchase = await Purchase.create(purchaseData): the purchase is
\* stored; then the line items are made and the checkout session is asked for.
PurchaseCreate(b) ==
    /\ buy[b].pc = "create"
    /\ purchases' = Append(purchases, buy[b].purchaseData[1])
    /\ buy' = [buy EXCEPT ![b].newPurchase = Len(purchases) + 1,
                          ![b].pc = "session"]
    /\ UNCHANGED <<courses, users, sessions, purchaseRes, hook, progress, req,
                   contentRes, lastOp, now, rate, average, add, edit, reg>>

\* const session = await stripeInstance.checkout.sessions.create({ line_items,
\* metadata: { purchaseId } }): the processor creates the session and the call
\* answers its URL, or the processor fails and the catch answers the message.
CreateSession(b, sessionOk) ==
    /\ buy[b].pc = "session"
    /\ LET f == buy[b]
       IN IF sessionOk
          THEN /\ sessions' = sessions \cup
                     {[purchaseId |-> f.newPurchase,
                       unit_amount |-> UnitAmount(f.purchaseData[1].amount)]}
               /\ purchaseRes' = [success |-> TRUE, body |-> "session_url"]
          ELSE /\ sessions' = sessions
               /\ purchaseRes' = [success |-> FALSE, body |-> "error.message"]
    /\ buy' = [buy EXCEPT ![b] = IdleBuy]
    /\ UNCHANGED <<courses, users, purchases, hook, progress, req, contentRes,
                   lastOp, now, rate, average, add, edit, reg>>

\* Receive with a fault: a failed signature check is ignored.
ReceiveUnverified(h, sigOk, type, pid) ==
    /\ FirstIdle(hook, h)
    /\ now' = now + 1
    /\ hook' = [hook EXCEPT ![h] =
          IF type = "other"
          THEN [IdleHook EXCEPT !.type = type, !.sigOk = sigOk, !.pc = "done",
                                !.res = Received]
          ELSE [IdleHook EXCEPT !.type = type, !.sigOk = sigOk, !.pid = pid,
                       !.pc = IF type = "payment_intent.succeeded"
                              THEN "findPurchase" ELSE "failFindPurchase"]]
    /\ UNCHANGED <<courses, users, purchases, sessions, purchaseRes, progress,
                   req, contentRes, lastOp, rate,
                   average,
                   add, buy, edit, reg>>

\* stripeWebhooks, up to the first store lookup: constructEvent verifies the
\* signature (a failure answers 400 and returns); the switch on event.type
\* answers an unhandled type at once; sessions.list gives the purchase id
\* pid the checkout session of the payment was tagged with.
Receive(h, sigOk, type, pid) ==
    /\ FirstIdle(hook, h)
    /\ now' = now + 1
    /\ hook' = [hook EXCEPT ![h] =
          IF ~sigOk
          THEN [IdleHook EXCEPT !.sigOk = FALSE, !.pc = "done", !.res = WebhookError]
          ELSE IF type = "other"
          THEN [IdleHook EXCEPT !.type = type, !.pc = "done", !.res = Received]
          ELSE [IdleHook EXCEPT !.type = type, !.pid = pid,
                       !.pc = IF type = "payment_intent.succeeded"
                              THEN "findPurchase" ELSE "failFindPurchase"]]
    /\ UNCHANGED <<courses, users, purchases, sessions, purchaseRes, progress,
                   req, contentRes, lastOp, rate,
                   average,
                   add, buy, edit, reg>>

\* Purchase.findById(purchaseId); on null, purchaseData.userId throws: the
\* switch is in no try block, so the handler ends without an answer.
FindPurchase(h) ==
    /\ hook[h].pc = "findPurchase"
    /\ LET purchaseData == FindPurchaseById(hook[h].pid)
       IN hook' = [hook EXCEPT ![h].purchaseData = purchaseData,
                               ![h].pc = IF purchaseData = <<>> THEN "thrown"
                                         ELSE "findUser"]
    /\ UNCHANGED <<courses, users, purchases, sessions, purchaseRes, progress,
                   req, contentRes, lastOp, now, rate,
                   average,
                   add, buy, edit, reg>>

\* User.findById(purchaseData.userId)
FindUser(h) ==
    /\ hook[h].pc = "findUser"
    /\ hook' = [hook EXCEPT ![h].userData = <<hook[h].purchaseData[1].userId>>,
                            ![h].pc = "findCourse"]
    /\ UNCHANGED <<courses, users, purchases, sessions, purchaseRes, progress,
                   req, contentRes, lastOp, now, rate,
                   average,
                   add, buy, edit, reg>>

\* Course.findById(purchaseData.courseId); courseData.enrolledStudents.push
FindCourse(h) ==
    /\ hook[h].pc = "findCourse"
    /\ hook' = [hook EXCEPT ![h].courseData = <<hook[h].purchaseData[1].courseId>>,
                            ![h].pc = "saveCourse"]
    /\ UNCHANGED <<courses, users, purchases, sessions, purchaseRes, progress,
                   req, contentRes, lastOp, now, rate,
                   average,
                   add, buy, edit, reg>>

\* await courseData.save(): the pushed student is appended; then
\* userData.enrolledCourses.push(courseData._id), which throws on a user
\* document without the array: the switch is in no try block, so the handler
\* ends there without an answer.
SaveCourse(h) ==
    /\ hook[h].pc = "saveCourse"
    /\ LET c == hook[h].courseData[1]
           u == hook[h].userData[1]
       IN /\ courses' = [courses EXCEPT ![c].enrolledStudents = Append(@, u)]
          /\ hook' = [hook EXCEPT ![h].pc = IF HasEnrolledCourses(users[u])
                                            THEN "saveUser" ELSE "thrown"]
    /\ UNCHANGED <<users, purchases, sessions, purchaseRes, progress, req,
                   contentRes, lastOp, now, rate,
                   average,
                   add, buy, edit, reg>>

\* await userData.save(): the pushed course is appended;
\* then purchaseData.status = 'completed'
SaveUser(h) ==
    /\ hook[h].pc = "saveUser"
    /\ LET c == hook[h].courseData[1]
           u == hook[h].userData[1]
       IN users' = [users EXCEPT ![u].enrolledCourses = Append(@, c)]
    /\ hook' = [hook EXCEPT ![h].pc = "savePurchase"]
    /\ UNCHANGED <<courses, purchases, sessions, purchaseRes, progress, req,
                   contentRes, lastOp, now, rate,
                   average,
                   add, buy, edit, reg>>

\* await purchaseData.save(); break; response.json({ received: true }).
\* save() sends the paths whose value the handler changed: the status is
\* written unless the document read had the status 'completed' already.
SavePurchase(h) ==
    /\ hook[h].pc = "savePurchase"
    /\ purchases' = IF hook[h].purchaseData[1].status = "completed"
                    THEN purchases
                    ELSE [purchases EXCEPT ![hook[h].pid].status = "completed"]
    /\ hook' = [hook EXCEPT ![h].pc = "done", ![h].res = Received]
    /\ UNCHANGED <<courses, users, sessions, purchaseRes, progress, req,
                   contentRes, lastOp, now, rate,
                   average,
                   add, buy, edit, reg>>

\* payment_failed: Purchase.findById(purchaseId); purchaseData.status = 'failed',
\* which throws on null.
FailFindPurchase(h) ==
    /\ hook[h].pc = "failFindPurchase"
    /\ LET purchaseData == FindPurchaseById(hook[h].pid)
       IN hook' = [hook EXCEPT ![h].purchaseData = purchaseData,
                               ![h].pc = IF purchaseData = <<>> THEN "thrown"
                                         ELSE "failSavePurchase"]
    /\ UNCHANGED <<courses, users, purchases, sessions, purchaseRes, progress,
                   req, contentRes, lastOp, now, rate,
                   average,
                   add, buy, edit, reg>>

\* FailSavePurchase with a fault: every purchase of the user is set failed.
FailSaveEveryPurchase(h) ==
    /\ hook[h].pc = "failSavePurchase"
    /\ purchases' = [i \in 1..Len(purchases) |->
          IF purchases[i].userId = hook[h].purchaseData[1].userId
          THEN [purchases[i] EXCEPT !.status = "failed"]
          ELSE purchases[i]]
    /\ hook' = [hook EXCEPT ![h].pc = "done", ![h].res = Received]
    /\ UNCHANGED <<courses, users, sessions, purchaseRes, progress, req,
                   contentRes, lastOp, now, rate,
                   average,
                   add, buy, edit, reg>>

\* payment_failed: await purchaseData.save(); break; response.json(...).
\* save() sends the paths whose value the handler changed: the status is
\* written unless the document read had the status 'failed' already.
FailSavePurchase(h) ==
    /\ hook[h].pc = "failSavePurchase"
    /\ purchases' = IF hook[h].purchaseData[1].status = "failed"
                    THEN purchases
                    ELSE [purchases EXCEPT ![hook[h].pid].status = "failed"]
    /\ hook' = [hook EXCEPT ![h].pc = "done", ![h].res = Received]
    /\ UNCHANGED <<courses, users, sessions, purchaseRes, progress, req,
                   contentRes, lastOp, now, rate,
                   average,
                   add, buy, edit, reg>>

\* The handler has returned or thrown; its frame is gone.
HookReturn(h) ==
    /\ hook[h].pc \in {"done", "thrown"}
    /\ hook' = [hook EXCEPT ![h] = IdleHook]
    /\ UNCHANGED <<courses, users, purchases, sessions, purchaseRes, progress,
                   req, contentRes, lastOp, now, rate,
                   average,
                   add, buy, edit, reg>>


(* ------------------------- Progress documents ------------------------- *)

NoProgRes ==
    [success |-> FALSE, message |-> "none", completedLectures |-> <<>>,
     completionPercentage |-> 0, progressData |-> <<>>]

IdleReq ==
    [pc |-> "idle", op |-> "none", userId |-> "none", courseId |-> "none",
     lectureId |-> "none", progress |-> <<>>, allProgress |-> <<>>,
     lastAccessed |-> 0, updatedAt |-> 0,
     completionPercentage |-> 0, res |-> NoProgRes]

NoOp == <<"none", "none", "none", "none">>

\* The request a frame is handling, as the history records it.
OpOf(f) == <<f.op, f.userId, f.courseId, f.lectureId>>

\* The positions of the Progress documents of (userId, courseId).
Matching(u, c) ==
    {i \in 1..Len(progress) : progress[i].userId = u /\ progress[i].courseId = c}

\* Progress.findOne({ userId, courseId }): the position of the first match, or 0.
FindOne(u, c) ==
    IF Matching(u, c) = {} THEN 0
    ELSE CHOOSE i \in Matching(u, c) : \A j \in Matching(u, c) : i <= j

\* UniqueIndexAllows with a fault: the collection has no unique index.
NoUniqueIndex(u, c) == TRUE

\* progressSchema.index({ userId: 1, courseId: 1 }, { unique: true }): an
\* insert is refused when a document with the key is stored.
UniqueIndexAllows(u, c) == Matching(u, c) = {}

\* progressSchema.methods.calculateCompletionPercentage, on the document doc:
\* the course is read from the store at the time of the call.
calculateCompletionPercentage(doc, c) ==
    IF c \notin DOMAIN courses THEN 0
    ELSE LET totalLectures == SumLectures(courses[c].courseContent)
         IN IF totalLectures = 0 THEN 0
            ELSE RoundPercent(Len(doc.completedLectures), totalLectures)

(* ------------------------ progressController -------------------------- *)

\* markLectureAsComplete, to the call that follows Progress.findOne: no
\* document leads to the create, a document without the lecture to the $push,
\* a document with it straight to the percentage. The new Date() of the create
\* and of the $push is evaluated here, when the call is made, and kept in the
\* frame until the store applies the call.
MarkFind(p, u, c, l) ==
    /\ FirstIdle(req, p)
    /\ now' = now + 1
    /\ LET i == FindOne(u, c)
           f == [IdleReq EXCEPT !.op = "mark", !.userId = u, !.courseId = c,
                                !.lectureId = l, !.lastAccessed = now']
       IN req' = [req EXCEPT ![p] =
             IF i = 0 THEN [f EXCEPT !.pc = "m_create"]
             ELSE [f EXCEPT !.progress = <<progress[i]>>,
                            !.pc = IF l \in Range(progress[i].completedLectures)
                                   THEN "m_calc" ELSE "m_push"]]
    /\ UNCHANGED <<courses, users, purchases, sessions, purchaseRes, hook,
                   progress, contentRes, lastOp, rate,
                   average,
                   add, buy, edit, reg>>

\* The store applies Progress.create({ userId, courseId, completedLectures:
\* [lectureId], lastAccessed }) with the date of the call, which is also the
\* createdAt and updatedAt the schema's timestamps give the document; a
\* duplicate key throws, and the catch answers { success: false, message }.
MarkCreate(p) ==
    /\ req[p].pc = "m_create"
    /\ LET f == req[p]
           doc == [userId |-> f.userId, courseId |-> f.courseId,
                   completedLectures |-> <<f.lectureId>>,
                   lastAccessed |-> f.lastAccessed,
                   completionPercentage |-> 0,
                   createdAt |-> f.lastAccessed,
                   updatedAt |-> f.lastAccessed]
       IN IF UniqueIndexAllows(f.userId, f.courseId)
          THEN /\ progress' = Append(progress, doc)
               /\ req' = [req EXCEPT ![p].progress = <<doc>>, ![p].pc = "m_calc"]
          ELSE /\ progress' = progress
               /\ req' = [req EXCEPT ![p].pc = "done",
                              ![p].res = [NoProgRes EXCEPT !.message = "duplicate key"]]
    /\ UNCHANGED <<courses, users, purchases, sessions, purchaseRes, hook,
                   contentRes, lastOp, now, rate,
                   average,
                   add, buy, edit, reg>>

\* The store applies Progress.findOneAndUpdate({ userId, courseId }, { $push:
\* { completedLectures: lectureId }, $set: { lastAccessed } }, { new: true })
\* with the date of the call; the schema's timestamps make the update set
\* updatedAt to that date as well.
MarkPush(p) ==
    /\ req[p].pc = "m_push"
    /\ LET f == req[p]
           i == FindOne(f.userId, f.courseId)
       IN IF i = 0
          THEN /\ progress' = progress
               /\ req' = [req EXCEPT ![p].progress = <<>>, ![p].pc = "m_calc"]
          ELSE /\ progress' = [progress EXCEPT
                                 ![i].completedLectures = Append(@, f.lectureId),
                                 ![i].lastAccessed = f.lastAccessed,
                                 ![i].updatedAt = f.lastAccessed]
               /\ req' = [req EXCEPT ![p].progress = <<progress'[i]>>,
                                     ![p].pc = "m_calc"]
    /\ UNCHANGED <<courses, users, purchases, sessions, purchaseRes, hook,
                   contentRes, lastOp, now, rate,
                   average,
                   add, buy, edit, reg>>

\* const completionPercentage = await progress.calculateCompletionPercentage(courseId);
\* on a null document the call throws, and the catch answers the failure.
\* Else the findOneAndUpdate of the percentage is called: the schema's
\* timestamps add the date of this call to it as updatedAt.
MarkCalc(p) ==
    /\ req[p].pc = "m_calc"
    /\ LET f == req[p]
       IN req' = [req EXCEPT ![p] =
             IF f.progress = <<>>
             THEN [f EXCEPT !.pc = "done",
                            !.res = [NoProgRes EXCEPT !.message = "TypeError"]]
             ELSE [f EXCEPT !.pc = "m_update",
                            !.updatedAt = now,
                            !.completionPercentage =
                                calculateCompletionPercentage(f.progress[1], f.courseId)]]
    /\ UNCHANGED <<courses, users, purchases, sessions, purchaseRes, hook,
                   progress, contentRes, lastOp, now, rate,
                   average,
                   add, buy, edit, reg>>

\* The store applies Progress.findOneAndUpdate({ userId, courseId }, { $set:
\* { completionPercentage } }, { new: true }), which sets updatedAt too
\* (timestamps: true); res.json({ success: true, ..., completedLectures:
\* progress.completedLectures, completionPercentage })
MarkUpdate(p) ==
    /\ req[p].pc = "m_update"
    /\ LET f == req[p]
           i == FindOne(f.userId, f.courseId)
       IN IF i = 0
          THEN /\ progress' = progress
               /\ req' = [req EXCEPT ![p].progress = <<>>, ![p].pc = "done",
                              ![p].res = [NoProgRes EXCEPT !.message = "TypeError"]]
          ELSE /\ progress' = [progress EXCEPT
                                 ![i].completionPercentage = f.completionPercentage,
                                 ![i].updatedAt = f.updatedAt]
               /\ req' = [req EXCEPT ![p].progress = <<progress'[i]>>,
                              ![p].pc = "done",
                              ![p].res = [NoProgRes EXCEPT
                                  !.success = TRUE,
                                  !.message = "Lecture marked as complete",
                                  !.completedLectures = progress'[i].completedLectures,
                                  !.completionPercentage = f.completionPercentage]]
    /\ UNCHANGED <<courses, users, purchases, sessions, purchaseRes, hook,
                   contentRes, lastOp, now, rate,
                   average,
                   add, buy, edit, reg>>

\* getUserCourseProgress, to the end of Progress.findOne: no document answers
\* the empty defaults.
GetFind(p, u, c) ==
    /\ FirstIdle(req, p)
    /\ now' = now + 1
    /\ LET i == FindOne(u, c)
           f == [IdleReq EXCEPT !.op = "get", !.userId = u, !.courseId = c]
       IN req' = [req EXCEPT ![p] =
             IF i = 0
             THEN [f EXCEPT !.pc = "done",
                            !.res = [NoProgRes EXCEPT !.success = TRUE,
                                                      !.message = "progress"]]
             ELSE [f EXCEPT !.progress = <<progress[i]>>, !.pc = "g_calc"]]
    /\ UNCHANGED <<courses, users, purchases, sessions, purchaseRes, hook,
                   progress, contentRes, lastOp, rate,
                   average,
                   add, buy, edit, reg>>

\* getUserCourseProgress: await progress.calculateCompletionPercentage(courseId);
\* res.json({ success: true, completedLectures, completionPercentage, ... })
GetCalc(p) ==
    /\ req[p].pc = "g_calc"
    /\ LET f == req[p]
           pct == calculateCompletionPercentage(f.progress[1], f.courseId)
       IN req' = [req EXCEPT ![p].pc = "done",
                      ![p].completionPercentage = pct,
                      ![p].res = [NoProgRes EXCEPT
                          !.success = TRUE, !.message = "progress",
                          !.completedLectures = f.progress[1].completedLectures,
                          !.completionPercentage = pct]]
    /\ UNCHANGED <<courses, users, purchases, sessions, purchaseRes, hook,
                   progress, contentRes, lastOp, now, rate,
                   average,
                   add, buy, edit, reg>>

\* resetCourseProgress is received: the update { $set: { completedLectures:
\* [], lastAccessed: new Date(), completionPercentage: 0 } } is made, with
\* the date of the call, and Progress.findOneAndUpdate is called.
ResetCourseProgress(p, u, c) ==
    /\ FirstIdle(req, p)
    /\ now' = now + 1
    /\ req' = [req EXCEPT ![p] =
          [IdleReq EXCEPT !.op = "reset", !.userId = u, !.courseId = c,
                          !.lastAccessed = now', !.pc = "r_update"]]
    /\ UNCHANGED <<courses, users, purchases, sessions, purchaseRes, hook,
                   progress, contentRes, lastOp, rate, average, add, buy, edit,
                   reg>>

\* ResetUpdate with a fault: the document is deleted, not cleared.
ResetUpdateDeletes(p) ==
    /\ req[p].pc = "r_update"
    /\ LET i == FindOne(req[p].userId, req[p].courseId)
       IN progress' = IF i = 0 THEN progress
                      ELSE SubSeq(progress, 1, i - 1) \o
                           SubSeq(progress, i + 1, Len(progress))
    /\ req' = [req EXCEPT ![p].pc = "done",
                   ![p].res = [NoProgRes EXCEPT
                       !.success = TRUE,
                       !.message = "Progress reset successfully"]]
    /\ UNCHANGED <<courses, users, purchases, sessions, purchaseRes, hook,
                   contentRes, lastOp, now, rate, average, add, buy, edit, reg>>

\* The store applies the findOneAndUpdate of resetCourseProgress to the
\* document of the pair, if there is one, with the date of the call, which
\* the schema's timestamps make its updatedAt too;
\* res.json({ success: true, message: 'Progress reset successfully',
\* completedLectures: [], completionPercentage: 0 })
ResetUpdate(p) ==
    /\ req[p].pc = "r_update"
    /\ LET f == req[p]
           i == FindOne(f.userId, f.courseId)
       IN progress' = IF i = 0 THEN progress
                      ELSE [progress EXCEPT ![i].completedLectures = <<>>,
                                            ![i].lastAccessed = f.lastAccessed,
                                            ![i].completionPercentage = 0,
                                            ![i].updatedAt = f.lastAccessed]
    /\ req' = [req EXCEPT ![p].pc = "done",
                   ![p].res = [NoProgRes EXCEPT
                       !.success = TRUE,
                       !.message = "Progress reset successfully"]]
    /\ UNCHANGED <<courses, users, purchases, sessions, purchaseRes, hook,
                   contentRes, lastOp, now, rate, average, add, buy, edit, reg>>

\* The entry getAllUserProgress reports for one Progress document whose
\* courseId was populated with the course's _id, courseTitle and
\* courseThumbnail.
ProgressEntry(doc) ==
    LET course == courses[doc.courseId]
    IN [courseId |-> doc.courseId,
        courseTitle |-> IF "courseTitle" \in DOMAIN course
                        THEN course.courseTitle ELSE "undefined",
        courseThumbnail |-> course.courseThumbnail,
        completedLectures |-> doc.completedLectures,
        lastAccessed |-> doc.lastAccessed,
        completionPercentage |-> doc.completionPercentage]

\* Progress.find({ userId }): the documents of the user, in stored order.
RECURSIVE FindByUser(_, _)
FindByUser(docs, u) ==
    IF docs = <<>> THEN <<>>
    ELSE IF Head(docs).userId = u
         THEN <<Head(docs)>> \o FindByUser(Tail(docs), u)
         ELSE FindByUser(Tail(docs), u)

\* getAllUserProgress is received: Progress.find({ userId }) reads the
\* user's documents; then populate asks for their courses.
GetAllUserProgress(p, u) ==
    /\ FirstIdle(req, p)
    /\ now' = now + 1
    /\ req' = [req EXCEPT ![p] =
          [IdleReq EXCEPT !.op = "all", !.userId = u,
                          !.allProgress = FindByUser(progress, u),
                          !.pc = "a_populate"]]
    /\ UNCHANGED <<courses, users, purchases, sessions, purchaseRes, hook,
                   progress, contentRes, lastOp, rate,
                   average,
                   add, buy, edit, reg>>

\* .populate('courseId', 'courseTitle courseThumbnail'): the courses of the
\* documents are read, and the courseId of a document whose course is not
\* stored becomes null.  allProgress.map(...) makes the entries; on a null
\* courseId, progress.courseId._id throws and the catch answers the failure.
GetAllPopulate(p) ==
    /\ req[p].pc = "a_populate"
    /\ LET allProgress == req[p].allProgress
       IN req' = [req EXCEPT ![p].pc = "done", ![p].res =
             IF \E k \in 1..Len(allProgress) :
                   allProgress[k].courseId \notin DOMAIN courses
             THEN [NoProgRes EXCEPT
                      !.message = "Cannot read properties of null (reading '_id')"]
             ELSE [NoProgRes EXCEPT
                      !.success = TRUE, !.message = "progressData",
                      !.progressData = [k \in 1..Len(allProgress) |->
                                           ProgressEntry(allProgress[k])]]]
    /\ UNCHANGED <<courses, users, purchases, sessions, purchaseRes, hook,
                   progress, contentRes, lastOp, now, rate, average, add, buy,
                   edit, reg>>

\* The handler has returned; its frame is gone.
ReqReturn(p) ==
    /\ req[p].pc = "done"
    /\ lastOp' = OpOf(req[p])
    /\ req' = [req EXCEPT ![p] = IdleReq]
    /\ UNCHANGED <<courses, users, purchases, sessions, purchaseRes, hook,
                   progress, contentRes, now, rate,
                   average,
                   add, buy, edit, reg>>


(* ------------------------- contentController -------------------------- *)

\* The highest chapter order a reorder request gives.
MaxChapters == 2

\* A video URL, as the parts the validation patterns tell apart:
\* (https?://)? (www.)? host / path
Url(scheme, www, host, path) ==
    [scheme |-> scheme, www |-> www, host |-> host, path |-> path]

NoUrl == Url("", FALSE, "", "")
VimeoUrl == Url("https://", FALSE, "vimeo.com", "123456789")
YoutubeUrl == Url("https://", TRUE, "youtube.com", "watch?v=abc")
InvalidHostUrl == Url("https://", FALSE, "invalid-host.com", "video")

\* isValidVideoUrl with a fault: every URL passes.
EveryUrlValid(url) == TRUE

\* isValidVideoUrl: youtubeRegex.test(url) || vimeoRegex.test(url)
isValidVideoUrl(url) ==
    /\ url.scheme \in {"", "http://", "https://"}
    /\ url.host \in {"youtube.com", "youtu.be", "vimeo.com"}
    /\ url.path # ""

\* MaxOrder with a fault: the number of orders in place of the highest.
CountOrders(orders) == Cardinality(orders)

\* Math.max(...orders), and 0 for none.
MaxOrder(orders) ==
    IF orders = {} THEN 0 ELSE CHOOSE m \in orders : \A o \in orders : o <= m

\* findIndex(chapter => chapter.chapterId === chapterId): the first position, or 0.
ChapterIndex(content, chapterId) ==
    LET I == {i \in 1..Len(content) : content[i].chapterId = chapterId}
    IN IF I = {} THEN 0 ELSE CHOOSE i \in I : \A j \in I : i <= j

ContentRes(success, message) == [success |-> success, message |-> message]

\* The frame of a content edit: the order list of the request (of a
\* reorder), the course document read, as the handler has changed it, and
\* what its save() sends: the element pushed on the array of chapters
\* (chapterIndex 0) or on the lectures of the chapter at chapterIndex, and the
\* orders assigned, by position.
IdleEdit ==
    [pc |-> "idle", op |-> "none", courseId |-> "none", orders |-> <<>>,
     course |-> <<>>, chapterIndex |-> 0, push |-> <<>>, set |-> {}]

\* return res.json({ success: false, message }): the edit is answered before
\* anything was changed.
Reject(name, c, message) ==
    /\ contentRes' = ContentRes(FALSE, message)
    /\ lastOp' = <<name, "none", c, "none">>
    /\ edit' = edit

\* The handler goes on to course.save() with the frame f.
ToSave(e, f) ==
    /\ edit' = [edit EXCEPT ![e] = [f EXCEPT !.pc = "save"]]
    /\ UNCHANGED <<contentRes, lastOp, reg>>

\* addChapter, to the call of course.save(): the course is read, the caller
\* checked against its educator, the chapter pushed with the order after the
\* highest one read.
AddChapter(e, c, educatorId, chapterId) ==
    /\ FirstIdle(edit, e)
    /\ now' = now + 1
    /\ LET course == FindById(courses, c)
       IN IF course = <<>>
          THEN Reject("addChapter", c, "Course not found")
          ELSE IF course[1].educator # educatorId
          THEN Reject("addChapter", c, "Unauthorized")
          ELSE LET content == course[1].courseContent
                   maxOrder == MaxOrder({content[i].chapterOrder : i \in 1..Len(content)})
                   newChapter == [chapterId |-> chapterId,
                                  chapterOrder |-> maxOrder + 1,
                                  chapterContent |-> <<>>]
               IN ToSave(e, [IdleEdit EXCEPT
                      !.op = "addChapter", !.courseId = c,
                      !.course = <<[course[1] EXCEPT
                                      !.courseContent = Append(@, newChapter)]>>,
                      !.push = <<newChapter>>])
    /\ UNCHANGED <<courses, users, purchases, sessions, purchaseRes, hook, progress,
                   req, rate, average, add, buy, reg>>

\* addLecture, to the call of course.save(): as addChapter, then the chapter
\* is looked up and the video URL validated; the lecture is pushed on the
\* chapter with the order after the highest one read.
AddLecture(e, c, educatorId, chapterId, lectureData) ==
    /\ FirstIdle(edit, e)
    /\ now' = now + 1
    /\ LET course == FindById(courses, c)
       IN IF course = <<>>
          THEN Reject("addLecture", c, "Course not found")
          ELSE IF course[1].educator # educatorId
          THEN Reject("addLecture", c, "Unauthorized")
          ELSE IF ChapterIndex(course[1].courseContent, chapterId) = 0
          THEN Reject("addLecture", c, "Chapter not found")
          ELSE IF lectureData.lectureUrl = NoUrl \/ ~isValidVideoUrl(lectureData.lectureUrl)
          THEN Reject("addLecture", c, "Invalid video URL")
          ELSE LET chapterIndex == ChapterIndex(course[1].courseContent, chapterId)
                   lectures == course[1].courseContent[chapterIndex].chapterContent
                   maxOrder == MaxOrder({lectures[i].lectureOrder : i \in 1..Len(lectures)})
                   newLecture == [lectureId |-> lectureData.lectureId,
                                  lectureUrl |-> lectureData.lectureUrl,
                                  isPreviewFree |-> lectureData.isPreviewFree,
                                  lectureOrder |-> maxOrder + 1]
               IN ToSave(e, [IdleEdit EXCEPT
                      !.op = "addLecture", !.courseId = c,
                      !.course = <<[course[1] EXCEPT
                          !.courseContent[chapterIndex].chapterContent =
                              Append(@, newLecture)]>>,
                      !.chapterIndex = chapterIndex,
                      !.push = <<newLecture>>])
    /\ UNCHANGED <<courses, users, purchases, sessions, purchaseRes, hook, progress,
                   req, rate, average, add, buy, reg>>

\* Array.prototype.sort((a, b) => a[field] - b[field]), which is stable: the
\* element x takes its place after the elements of s that do not come after it.
RECURSIVE InsertByOrder(_, _, _)
InsertByOrder(x, s, field) ==
    IF s = <<>> THEN <<x>>
    ELSE IF Head(s)[field] <= x[field]
         THEN <<Head(s)>> \o InsertByOrder(x, Tail(s), field)
         ELSE <<x>> \o s

RECURSIVE SortByOrder(_, _)
SortByOrder(s, field) ==
    IF s = <<>> THEN <<>>
    ELSE InsertByOrder(s[Len(s)], SortByOrder(SubSeq(s, 1, Len(s) - 1), field), field)

\* ForViewer with a fault: no lecture URL is blanked.
ForViewerUnprotected(content, isEnrolled) ==
    LET sorted == SortByOrder(content, "chapterOrder")
    IN [i \in 1..Len(sorted) |->
          [sorted[i] EXCEPT !.chapterContent = SortByOrder(@, "lectureOrder")]]

\* getCourseById, on the course document read: the URL of a lecture that is
\* not a free preview is blanked for a viewer who is not enrolled, then the
\* chapters and each chapter's lectures are sorted by their order.
ForViewer(content, isEnrolled) ==
    LET blanked == [i \in 1..Len(content) |->
            [content[i] EXCEPT !.chapterContent =
                [j \in 1..Len(@) |->
                    IF ~@[j].isPreviewFree /\ ~isEnrolled
                    THEN [@[j] EXCEPT !.lectureUrl = NoUrl]
                    ELSE @[j]]]]
        sorted == SortByOrder(blanked, "chapterOrder")
    IN [i \in 1..Len(sorted) |->
          [sorted[i] EXCEPT !.chapterContent = SortByOrder(@, "lectureOrder")]]

\* getCourseById: Course.findById(id); const isEnrolled = req.isEnrolled ||
\* false; the document read is changed for the viewer and answered, never
\* saved.  No course makes the forEach throw, and the catch answers the
\* failure.  The answer is kept with the isEnrolled flag of its request.
GetCourseById(id, isEnrolled) ==
    /\ now' = now + 1
    /\ lastOp' = <<"getCourseById", "none", id, "none">>
    /\ contentRes' =
          IF id \notin DOMAIN courses
          THEN ContentRes(FALSE, "TypeError")
          ELSE [success |-> TRUE, message |-> "courseData",
                isEnrolled |-> isEnrolled,
                courseData |-> [id |-> id,
                                courseContent |->
                                    ForViewer(courses[id].courseContent, isEnrolled)]]
    /\ UNCHANGED <<courses, users, purchases, sessions, purchaseRes, hook,
                   progress, req, rate,
                   average,
                   add, buy, edit, reg>>

\* chapterOrders.forEach(order => { const chapter = course.courseContent.find(
\* ch => ch.chapterId === order.chapterId); if (chapter) chapter.chapterOrder =
\* order.order }): the orders are applied one after the other, each to the
\* first chapter of its id.
RECURSIVE ApplyChapterOrders(_, _)
ApplyChapterOrders(content, orders) ==
    IF orders = <<>> THEN content
    ELSE LET k == ChapterIndex(content, Head(orders).chapterId)
         IN ApplyChapterOrders(
                IF k = 0 THEN content
                ELSE [content EXCEPT ![k].chapterOrder = Head(orders).order],
                Tail(orders))

\* find(lec => lec.lectureId === lectureId): the first position, or 0.
LectureIndex(lectures, lectureId) ==
    LET I == {i \in 1..Len(lectures) : lectures[i].lectureId = lectureId}
    IN IF I = {} THEN 0 ELSE CHOOSE i \in I : \A j \in I : i <= j

\* lectureOrders.forEach(...): as for the chapters, within one chapter.
RECURSIVE ApplyLectureOrders(_, _)
ApplyLectureOrders(lectures, orders) ==
    IF orders = <<>> THEN lectures
    ELSE LET k == LectureIndex(lectures, Head(orders).lectureId)
         IN ApplyLectureOrders(
                IF k = 0 THEN lectures
                ELSE [lectures EXCEPT ![k].lectureOrder = Head(orders).order],
                Tail(orders))

\* The orders a save() sends after a reorder: the positions whose order is
\* not the one read.
ChangedOrders(read, changed, field) ==
    {[index |-> k, order |-> changed[k][field]] :
        k \in {i \in 1..Len(read) : changed[i][field] # read[i][field]}}

\* $set of the orders sent, each at its position of the stored array.
SetOrders(stored, set, field) ==
    [k \in 1..Len(stored) |->
        IF \E x \in set : x.index = k
        THEN [stored[k] EXCEPT ![field] = (CHOOSE x \in set : x.index = k).order]
        ELSE stored[k]]

\* reorderChapters, to the call of course.save(): the course is read, the
\* caller checked against its educator, the given orders assigned to the
\* chapters of the document read.
ReorderChapters(e, c, educatorId, chapterOrders) ==
    /\ FirstIdle(edit, e)
    /\ now' = now + 1
    /\ LET course == FindById(courses, c)
       IN IF course = <<>>
          THEN Reject("reorderChapters", c, "Course not found")
          ELSE IF course[1].educator # educatorId
          THEN Reject("reorderChapters", c, "Unauthorized")
          ELSE LET read == course[1].courseContent
                   changed == ApplyChapterOrders(read, chapterOrders)
               IN ToSave(e, [IdleEdit EXCEPT
                      !.op = "reorderChapters", !.courseId = c,
                      !.orders = chapterOrders,
                      !.course = <<[course[1] EXCEPT !.courseContent = changed]>>,
                      !.set = ChangedOrders(read, changed, "chapterOrder")])
    /\ UNCHANGED <<courses, users, purchases, sessions, purchaseRes, hook, progress,
                   req, rate, average, add, buy, reg>>

\* reorderLectures, to the call of course.save(): as reorderChapters, for
\* the lectures of one chapter.
ReorderLectures(e, c, educatorId, chapterId, lectureOrders) ==
    /\ FirstIdle(edit, e)
    /\ now' = now + 1
    /\ LET course == FindById(courses, c)
       IN IF course = <<>>
          THEN Reject("reorderLectures", c, "Course not found")
          ELSE IF course[1].educator # educatorId
          THEN Reject("reorderLectures", c, "Unauthorized")
          ELSE IF ChapterIndex(course[1].courseContent, chapterId) = 0
          THEN Reject("reorderLectures", c, "Chapter not found")
          ELSE LET chapterIndex == ChapterIndex(course[1].courseContent, chapterId)
                   read == course[1].courseContent[chapterIndex].chapterContent
                   changed == ApplyLectureOrders(read, lectureOrders)
               IN ToSave(e, [IdleEdit EXCEPT
                      !.op = "reorderLectures", !.courseId = c,
                      !.orders = lectureOrders,
                      !.course = <<[course[1] EXCEPT
                          !.courseContent[chapterIndex].chapterContent = changed]>>,
                      !.chapterIndex = chapterIndex,
                      !.set = ChangedOrders(read, changed, "lectureOrder")])
    /\ UNCHANGED <<courses, users, purchases, sessions, purchaseRes, hook, progress,
                   req, rate, average, add, buy, reg>>

\* What a save() of the edit f makes of the stored content: the element
\* pushed is appended to the stored array, the orders assigned are set.
SavedContent(content, f) ==
    CASE f.op = "addChapter" -> content \o f.push
      [] f.op = "addLecture" ->
            [content EXCEPT ![f.chapterIndex].chapterContent = @ \o f.push]
      [] f.op = "reorderChapters" -> SetOrders(content, f.set, "chapterOrder")
      [] f.op = "reorderLectures" ->
            [content EXCEPT ![f.chapterIndex].chapterContent =
                                SetOrders(@, f.set, "lectureOrder")]

\* The message of the answer to an edit that was saved.
SavedMessage(op) ==
    CASE op = "addChapter" -> "Chapter added"
      [] op = "addLecture" -> "Lecture added"
      [] op = "reorderChapters" -> "Chapters reordered"
      [] op = "reorderLectures" -> "Lectures reordered"

\* await course.save(); res.json({ success: true, message }): the store
\* applies what the save sends, and the edit is answered.
CourseSave(e) ==
    /\ edit[e].pc = "save"
    /\ LET f == edit[e]
       IN /\ courses' = [courses EXCEPT ![f.courseId].courseContent =
                                            SavedContent(@, f)]
          /\ contentRes' = ContentRes(TRUE, SavedMessage(f.op))
          /\ lastOp' = <<f.op, "none", f.courseId, "none">>
    /\ edit' = [edit EXCEPT ![e] = IdleEdit]
    /\ UNCHANGED <<users, purchases, sessions, purchaseRes, hook, progress, req,
                   now, rate, average, add, buy, reg>>

(* ------------------------------ ratings -------------------------------- *)

\* The bounds of a rating: rating < 1 || rating > 5
MinRating == 1
MaxRating == 5

IdleRate ==
    [pc |-> "idle", userId |-> "none", courseId |-> "none", rating |-> 0,
     course |-> <<>>, existingRatingIndex |-> 0,
     res |-> ContentRes(FALSE, "none")]

\* A number is truthy unless it is 0.
Truthy(n) == n # 0

\* InvalidDetails with a fault: only the falsy checks are made.
InvalidDetailsFalsyOnly(u, c, rating) ==
    c = "" \/ u = "" \/ ~Truthy(rating)

\* !courseId || !userId || !rating || rating < 1 || rating > 5
InvalidDetails(u, c, rating) ==
    c = "" \/ u = "" \/ ~Truthy(rating) \/ rating < MinRating \/ rating > MaxRating

\* !(!user || !user.enrolledCourses.includes(courseId)), for a user that is
\* null or holds the enrolledCourses array.
HasPurchased(u, c) ==
    u \in DOMAIN users /\ c \in Range(users[u].enrolledCourses)

\* user.enrolledCourses.includes(courseId) throws: the user is stored and
\* its document has no enrolledCourses.
IncludesThrows(u) == u \in DOMAIN users /\ ~HasEnrolledCourses(users[u])

\* error.message of the TypeError thrown by user.enrolledCourses.includes.
TypeErrorMessage == "Cannot read properties of undefined (reading 'includes')"

\* RatingIndex with a fault: no rating of the user is found.
NoRatingIndex(ratings, u) == 0

\* course.courseRatings.findIndex(r => r.userId === userId): the first
\* position, or 0.
RatingIndex(ratings, u) ==
    LET I == {i \in 1..Len(ratings) : ratings[i].userId = u}
    IN IF I = {} THEN 0 ELSE CHOOSE i \in I : \A j \in I : i <= j

\* addUserRating, to the end of Course.findById: invalid details are answered
\* at once, and so is a course that is not found.
AddUserRating(u, c, rating) ==
    /\ rate.pc = "idle"
    /\ now' = now + 1
    /\ LET f == [IdleRate EXCEPT !.userId = u, !.courseId = c, !.rating = rating]
       IN rate' =
             IF InvalidDetails(u, c, rating)
             THEN [f EXCEPT !.pc = "done",
                            !.res = ContentRes(FALSE, "InValid Details")]
             ELSE IF c \notin DOMAIN courses
             THEN [f EXCEPT !.pc = "done",
                            !.res = ContentRes(FALSE, "Course not found.")]
             ELSE [f EXCEPT !.pc = "findUser", !.course = <<courses[c]>>]
    /\ UNCHANGED <<courses, users, purchases, sessions, purchaseRes, hook,
                   progress, req, contentRes, lastOp, average,
                   add, buy, edit, reg>>

\* User.findById(userId); a user who has not purchased the course is
\* answered; else the rating of the user is looked up in the course read, to
\* be updated, or a new one is pushed.  On a user document without
\* enrolledCourses the includes call throws, and the catch answers the
\* message of the error.
RateFindUser ==
    /\ rate.pc = "findUser"
    /\ rate' =
          IF IncludesThrows(rate.userId)
          THEN [rate EXCEPT !.pc = "done",
                   !.res = ContentRes(FALSE, TypeErrorMessage)]
          ELSE IF ~HasPurchased(rate.userId, rate.courseId)
          THEN [rate EXCEPT !.pc = "done",
                   !.res = ContentRes(FALSE, "User has not purchased this course.")]
          ELSE [rate EXCEPT !.pc = "save",
                   !.existingRatingIndex =
                       RatingIndex(rate.course[1].courseRatings, rate.userId)]
    /\ UNCHANGED <<courses, users, purchases, sessions, purchaseRes, hook,
                   progress, req, contentRes, lastOp, average, now,
                   add, buy, edit, reg>>

\* await course.save(): the rating assigned at the index found is set, a
\* pushed rating is appended; res.json({ success: true, message: 'Rating added' })
RateSave ==
    /\ rate.pc = "save"
    /\ courses' = [courses EXCEPT ![rate.courseId].courseRatings =
          IF rate.existingRatingIndex > 0
          THEN [@ EXCEPT ![rate.existingRatingIndex].rating = rate.rating]
          ELSE Append(@, [userId |-> rate.userId, rating |-> rate.rating])]
    /\ rate' = [rate EXCEPT !.pc = "done", !.res = ContentRes(TRUE, "Rating added")]
    /\ UNCHANGED <<users, purchases, sessions, purchaseRes, hook, progress, req,
                   contentRes, lastOp, average, now,
                   add, buy, edit, reg>>

\* The handler has returned; its frame is gone.
RateReturn ==
    /\ rate.pc = "done"
    /\ rate' = IdleRate
    /\ UNCHANGED <<courses, users, purchases, sessions, purchaseRes, hook,
                   progress, req, contentRes, lastOp, average, now,
                   add, buy, edit, reg>>

\* calculateRating(course), as the quotient total / count: 0 for no rating;
\* else totalRating starts at 0, the forEach callback returns totalRating +
\* rating.rating and assigns nothing, and totalRating / length is returned.
calculateRating(course) ==
    IF Len(course.courseRatings) = 0 THEN [total |-> 0, count |-> 1]
    ELSE LET totalRating == 0
         IN [total |-> totalRating, count |-> Len(course.courseRatings)]

\* The client computes the average rating of a course it was given.
CalculateRating(c) ==
    /\ average' = [courseId |-> c,
                   total |-> calculateRating(courses[c]).total,
                   count |-> calculateRating(courses[c]).count]
    /\ UNCHANGED <<courses, users, purchases, sessions, purchaseRes, hook,
                   progress, req, contentRes, lastOp, rate, now,
                   add, buy, edit, reg>>

(* -------------------------- courseController --------------------------- *)

\* imageUpload.secure_url
SecureUrl == "secure_url"

\* req.body.courseData is a text: the one JSON.stringify makes of course
\* data, or one that is no JSON (as <<"{invalid">>).
Stringify(data) == <<"json", data>>

\* JSON.parse(text): the value the text denotes, or none when it throws.
JsonParse(text) == IF text[1] = "json" THEN <<text[2]>> ELSE <<>>

IdleAdd ==
    [pc |-> "idle", educatorId |-> "none", parsedCourseData |-> <<>>,
     newCourse |-> "none", secureUrl |-> "none",
     res |-> ContentRes(FALSE, "none")]

\* The id the store gives the next course document: one no document has.
NewCourseId == "c" \o ToString(Cardinality(DOMAIN courses) + 1)

\* The document Course.create stores for the course data: the fields the
\* data gives, an empty array for each array it does not give, and no
\* thumbnail yet.
NewCourse(parsedCourseData) ==
    LET defaults == [courseContent |-> <<>>, enrolledStudents |-> <<>>,
                     courseRatings |-> <<>>, courseThumbnail |-> "none"]
    IN [k \in DOMAIN defaults \cup DOMAIN parsedCourseData |->
           IF k \in DOMAIN parsedCourseData THEN parsedCourseData[k]
           ELSE defaults[k]]

\* addCourse is received: without an image file it answers at once; else the
\* course data is parsed, which throws on a text that is no JSON (the catch
\* answers the message), the educator is set on the parsed object and
\* Course.create is called with it.
AddCourse(a, educatorId, imageFile, courseData) ==
    /\ FirstIdle(add, a)
    /\ now' = now + 1
    /\ LET f == [IdleAdd EXCEPT !.educatorId = educatorId]
           parsed == JsonParse(courseData)
       IN add' = [add EXCEPT ![a] =
             IF ~imageFile
             THEN [f EXCEPT !.pc = "done",
                            !.res = ContentRes(FALSE, "Thumbnail Not Attached")]
             ELSE IF parsed = <<>>
             THEN [f EXCEPT !.pc = "done",
                            !.res = ContentRes(FALSE, "SyntaxError")]
             ELSE [f EXCEPT !.pc = "create",
                            !.parsedCourseData =
                                <<[k \in DOMAIN parsed[1] \cup {"educator"} |->
                                      IF k = "educator" THEN educatorId
                                      ELSE parsed[1][k]]>>]]
    /\ UNCHANGED <<courses, users, purchases, sessions, purchaseRes, hook, progress,
                   req, contentRes, lastOp, rate, average, buy, edit, reg>>

\* const newCourse = await Course.create(parsedCourseData): the document is
\* stored under a new id, or the store fails and the catch answers the message.
AddCreate(a, ok) ==
    /\ add[a].pc = "create"
    /\ IF ok
       THEN /\ courses' = [id \in DOMAIN courses \cup {NewCourseId} |->
                              IF id = NewCourseId
                              THEN NewCourse(add[a].parsedCourseData[1])
                              ELSE courses[id]]
            /\ add' = [add EXCEPT ![a].pc = "upload", ![a].newCourse = NewCourseId]
       ELSE /\ courses' = courses
            /\ add' = [add EXCEPT ![a].pc = "done",
                           ![a].res = ContentRes(FALSE, "Database connection error")]
    /\ UNCHANGED <<users, purchases, sessions, purchaseRes, hook, progress,
                   req, contentRes, lastOp, rate, average, now, buy, edit, reg>>

\* cloudinary.v2.uploader.upload(imageFile.path): the media storage answers
\* with the URL, or the upload fails and the catch block answers.
AddUpload(a, ok) ==
    /\ add[a].pc = "upload"
    /\ add' = [add EXCEPT ![a] =
          IF ok
          THEN [@ EXCEPT !.pc = "save", !.secureUrl = SecureUrl]
          ELSE [@ EXCEPT !.pc = "done",
                         !.res = ContentRes(FALSE, "Cloudinary upload failed")]]
    /\ UNCHANGED <<courses, users, purchases, sessions, purchaseRes, hook, progress,
                   req, contentRes, lastOp, rate, average, now, buy, edit, reg>>

\* newCourse.courseThumbnail = imageUpload.secure_url; await newCourse.save();
\* res.json({ success: true, message: 'Course Added' })
AddSave(a) ==
    /\ add[a].pc = "save"
    /\ courses' = [courses EXCEPT
                      ![add[a].newCourse].courseThumbnail = add[a].secureUrl]
    /\ add' = [add EXCEPT ![a].pc = "done",
                          ![a].res = ContentRes(TRUE, "Course Added")]
    /\ UNCHANGED <<users, purchases, sessions, purchaseRes, hook, progress,
                   req, contentRes, lastOp, rate, average, now, buy, edit, reg>>

\* The response was sent.
AddReturn(a) ==
    /\ add[a].pc = "done"
    /\ add' = [add EXCEPT ![a] = IdleAdd]
    /\ UNCHANGED <<courses, users, purchases, sessions, purchaseRes, hook, progress,
                   req, contentRes, lastOp, rate, average, now, buy, edit, reg>>

(* --------------------------- authentication --------------------------- *)

\* The frame of a registerUser call, with the result it returns.
IdleReg ==
    [pc |-> "idle", create |-> <<>>,
     res |-> [success |-> FALSE, message |-> "none", user |-> <<>>]]

\* registerUser is received: user data without an email, a first name or a
\* last name throws, and the catch returns the message; else User.create is
\* called with the id given, or 'generated_id' for none, the email, the
\* name made of the two names, the image URL or '', and an empty resume.
RegisterUser(r, userData) ==
    /\ FirstIdle(reg, r)
    /\ now' = now + 1
    /\ reg' = [reg EXCEPT ![r] =
          IF userData.email = "" \/ userData.firstName = "" \/ userData.lastName = ""
          THEN [IdleReg EXCEPT !.pc = "done",
                               !.res.message = "Missing required fields"]
          ELSE [IdleReg EXCEPT
                   !.pc = "create",
                   !.create =
                       <<[_id |-> IF userData.id = "" THEN "generated_id"
                                  ELSE userData.id,
                          email |-> userData.email,
                          name |-> userData.firstName \o " " \o userData.lastName,
                          imageUrl |-> userData.imageUrl,
                          resume |-> ""]>>]]
    /\ UNCHANGED <<courses, users, purchases, sessions, purchaseRes, hook, progress,
                   req, contentRes, lastOp, rate, average, add, buy, edit>>

\* const newUser = await User.create({ ... }): the document is stored under
\* its id and the call returns it; or the store refuses it and the catch
\* returns the message.  A document whose id or whose email a stored user
\* has is always refused (_id, and email: unique).  The document stored has
\* the name and the email given and the schema's empty enrollCourses.
RegisterCreate(r, ok) ==
    /\ reg[r].pc = "create"
    /\ LET arg == reg[r].create[1]
           newUser == [name |-> arg.name, email |-> arg.email,
                       enrollCourses |-> <<>>]
           duplicate ==
               \/ arg._id \in DOMAIN users
               \/ \E id \in DOMAIN users :
                     "email" \in DOMAIN users[id] /\ users[id].email = arg.email
       IN IF duplicate
          THEN /\ users' = users
               /\ reg' = [reg EXCEPT ![r].pc = "done",
                              ![r].res.message = "E11000 duplicate key error"]
          ELSE IF ~ok
          THEN /\ users' = users
               /\ reg' = [reg EXCEPT ![r].pc = "done",
                              ![r].res.message = "error.message"]
          ELSE /\ users' = [id \in DOMAIN users \cup {arg._id} |->
                                IF id = arg._id THEN newUser ELSE users[id]]
               /\ reg' = [reg EXCEPT ![r].pc = "done",
                              ![r].res = [success |-> TRUE, message |-> "none",
                                          user |-> <<newUser>>]]
    /\ UNCHANGED <<courses, purchases, sessions, purchaseRes, hook, progress,
                   req, contentRes, lastOp, rate, average, add, buy, edit, now>>

\* The call has returned; its frame is gone.
RegisterReturn(r) ==
    /\ reg[r].pc = "done"
    /\ reg' = [reg EXCEPT ![r] = IdleReg]
    /\ UNCHANGED <<courses, users, purchases, sessions, purchaseRes, hook, progress,
                   req, contentRes, lastOp, rate, average, add, buy, edit, now>>

(* --------------------------- specifications --------------------------- *)

Lecture(id, url, free, order) ==
    [lectureId |-> id, lectureUrl |-> url, isPreviewFree |-> free,
     lectureOrder |-> order]

\* The store after the courses were published: c1 holds one chapter of two
\* lectures, c2 no chapter yet; nobody is enrolled, nothing is purchased and
\* no progress is recorded.
InitCourses ==
    [c \in Courses |->
          [educator |-> "e1",
           courseTitle |-> "title of " \o c,
           coursePrice |-> IF c = "c1" THEN 9999 ELSE 5000,
           discount |-> IF c = "c1" THEN 20 ELSE 0,
           courseContent |->
               IF c = "c1"
               THEN <<[chapterId |-> "ch1", chapterOrder |-> 1,
                       chapterContent |-> <<Lecture("l1", VimeoUrl, TRUE, 1),
                                            Lecture("l2", YoutubeUrl, FALSE, 2)>>]>>
               ELSE <<>>,
           enrolledStudents |-> <<>>,
           courseRatings |-> <<>>,
           courseThumbnail |-> SecureUrl]]

\* No request is being handled and none was answered.
InitFrames ==
    /\ purchaseRes = [success |-> FALSE, body |-> "none"]
    /\ hook = [h \in Handlers |-> IdleHook]
    /\ req = [p \in Procs |-> IdleReq]
    /\ contentRes = ContentRes(FALSE, "none")
    /\ lastOp = NoOp
    /\ rate = IdleRate
    /\ average = [courseId |-> "none", total |-> 0, count |-> 1]
    /\ buy = [b \in Buyers |-> IdleBuy]
    /\ edit = [e \in Editors |-> IdleEdit]
    /\ add = [a \in Adders |-> IdleAdd]
    /\ reg = [r \in Registrars |-> IdleReg]
    /\ now = 0

\* The user documents as the User schema declares them: the array of
\* courses is enrollCourses, and there is no enrolledCourses.
SchemaUsers == [u \in Users |-> [enrollCourses |-> <<>>]]

\* The user documents as the tests of the controllers make them: plain
\* objects with an enrolledCourses array.
TestUsers == [u \in Users |-> [enrolledCourses |-> <<>>]]

InitStore(initCourses, initUsers) ==
    /\ courses = initCourses
    /\ users = initUsers
    /\ purchases = <<>>
    /\ sessions = {}
    /\ progress = <<>>
    /\ InitFrames

\* The store with the users of the schema.
Init == InitStore(InitCourses, SchemaUsers)

\* The store with the users of either kind.
InitAnyUsers ==
    \E initUsers \in {SchemaUsers, TestUsers} : InitStore(InitCourses, initUsers)

\* The webhook delivery handled by h takes its next step.
HookStep(h) ==
    \/ FindPurchase(h)
    \/ FindUser(h)
    \/ FindCourse(h)
    \/ SaveCourse(h)
    \/ SaveUser(h)
    \/ SavePurchase(h)
    \/ FailFindPurchase(h)
    \/ FailSavePurchase(h)
    \/ HookReturn(h)

\* The purchases stored and the purchaseCourse calls being handled, which
\* may store one, are fewer than MaxPurchases.
PurchaseRoom ==
    Len(purchases) + Cardinality({b \in Buyers : buy[b].pc # "idle"}) < MaxPurchases

\* The purchaseCourse call handled by b takes its next step.
PurchaseStep(b) ==
    \/ PurchaseFindUser(b)
    \/ PurchaseCreate(b)
    \/ \E ok \in BOOLEAN : CreateSession(b, ok)

\* The purchaseCourse call handled by b takes its next step, the processor
\* creating the session it is asked for.
PaidStep(b) ==
    \/ PurchaseFindUser(b)
    \/ PurchaseCreate(b)
    \/ CreateSession(b, TRUE)

\* The processor holds a checkout session tagged with the purchase id: it
\* sends payment events of the sessions it created, of no other.
SessionOf(pid) == \E s \in sessions : s.purchaseId = pid

\* Purchases and webhook deliveries, the calls and the handlers interleaved;
\* every payment event is one of a checkout session the processor created.
NextPay ==
    \/ \E b \in Buyers, u \in ReqUsers, c \in ReqCourses :
          now < MaxPayRequests /\ PurchaseRoom /\ PurchaseCourse(b, u, c)
    \/ \E b \in Buyers : PurchaseStep(b)
    \/ \E h \in Handlers, ok \in BOOLEAN, ty \in EventTypes, pid \in 1..MaxPurchases :
          /\ now < MaxPayRequests
          /\ (ok /\ ty # "other") => SessionOf(pid)
          /\ Receive(h, ok, ty, pid)
    \/ \E h \in Handlers : HookStep(h)

SpecPay == InitAnyUsers /\ [][NextPay]_vars

\* Requests received in one run of the specification with unknown ids.
MaxAnyRequests == 3

\* As NextPay, with payment events that name an id the store does not hold.
NextPayAny ==
    \/ \E b \in Buyers, u \in Users, c \in Courses :
          now < MaxAnyRequests /\ PurchaseRoom /\ PurchaseCourse(b, u, c)
    \/ \E b \in Buyers : PurchaseStep(b)
    \/ \E h \in Handlers, ty \in EventTypes, pid \in 1..UnknownPurchaseId :
          /\ now < MaxAnyRequests
          /\ ty # "other" => (pid = UnknownPurchaseId \/ SessionOf(pid))
          /\ Receive(h, TRUE, ty, pid)
    \/ \E h \in Handlers : HookStep(h)

SpecPayAny == InitAnyUsers /\ [][NextPayAny]_vars

\* The lecture data of the content edits made beside progress requests.
EditLectures ==
    {[lectureId |-> l, lectureUrl |-> url, isPreviewFree |-> FALSE] :
        l \in Lectures, url \in {VimeoUrl}}

\* A request of a user of US that changes the progress of a course of CS is
\* received by process p.
ProgressWrite(p, US, CS) ==
    \/ \E u \in US, c \in CS, l \in Lectures : MarkFind(p, u, c, l)
    \/ \E u \in US, c \in CS : ResetCourseProgress(p, u, c)

\* A request that reads the progress of a course of CS is received by
\* process p.
ProgressRead(p, CS) ==
    \/ \E u \in Users, c \in CS : GetFind(p, u, c)
    \/ \E u \in Users : GetAllUserProgress(p, u)

\* The request handled by process p takes its next step.
ProgressStep(p) ==
    \/ MarkCreate(p)
    \/ MarkPush(p)
    \/ MarkCalc(p)
    \/ MarkUpdate(p)
    \/ GetCalc(p)
    \/ GetAllPopulate(p)
    \/ ResetUpdate(p)
    \/ ReqReturn(p)

\* A content edit that changes a course's lecture count is received: a
\* first chapter for a course that has none, or a lecture for a course that
\* holds fewer than MaxLectures lectures.
ContentEdit ==
    \/ \E c \in Courses, ch \in Chapters :
          /\ courses[c].courseContent = <<>>
          /\ AddChapter(1, c, courses[c].educator, ch)
    \/ \E c \in Courses, ch \in Chapters, d \in EditLectures :
          /\ SumLectures(courses[c].courseContent) < MaxLectures
          /\ AddLecture(1, c, courses[c].educator, ch, d)

\* Progress requests and content edits one after the other: a request is
\* received only after the one before it has returned.
NextProgSeq ==
    \/ (now < MaxSeqRequests /\ edit[1].pc = "idle" /\ ProgressWrite(1, Users, Courses))
    \/ (now < MaxSeqRequests /\ edit[1].pc = "idle" /\ ProgressRead(1, Courses))
    \/ ProgressStep(1)
    \/ (now < MaxSeqRequests /\ req[1].pc = "idle" /\ ContentEdit)
    \/ CourseSave(1)

SpecProgSeq == Init /\ [][NextProgSeq]_vars

\* Requests received in one run of the dashboard specification.
MaxDashRequests == 3

\* The dashboard read beside markLectureAsComplete requests, which may name
\* a course that is not stored, and content edits, one request after the
\* other.
NextDashboard ==
    \/ /\ now < MaxDashRequests /\ edit[1].pc = "idle"
       /\ \E u \in Users, c \in ReqCourses, l \in Lectures : MarkFind(1, u, c, l)
    \/ /\ now < MaxDashRequests /\ edit[1].pc = "idle"
       /\ \E u \in Users : GetAllUserProgress(1, u)
    \/ MarkCreate(1)
    \/ MarkPush(1)
    \/ MarkCalc(1)
    \/ MarkUpdate(1)
    \/ GetAllPopulate(1)
    \/ ReqReturn(1)
    \/ (now < MaxDashRequests /\ req[1].pc = "idle" /\ ContentEdit)
    \/ CourseSave(1)

SpecDashboard == Init /\ [][NextDashboard]_vars

\* markLectureAsComplete and resetCourseProgress requests of one user about
\* one course handled concurrently, the course content left as it is.
NextProgConc ==
    \/ \E p \in Procs : now < MaxConcRequests /\ ProgressWrite(p, {"u1"}, {"c1"})
    \/ \E p \in Procs : MarkCreate(p)
    \/ \E p \in Procs : MarkPush(p)
    \/ \E p \in Procs : MarkCalc(p)
    \/ \E p \in Procs : MarkUpdate(p)
    \/ \E p \in Procs : ResetUpdate(p)
    \/ \E p \in Procs : ReqReturn(p)

SpecProgConc == Init /\ [][NextProgConc]_vars

\* Lectures of the course in the percentage specification, and the requests
\* received in one run of it.
MaxCourseLectures == 40
MaxPercentRequests == 1

\* The id of the i-th lecture of the course of the percentage specification.
LectureId(i) == "l" \o ToString(i)

\* The store after user u1 completed the first n of the t lectures of course
\* c1, one after the other with the content left as it is (n = 0: the
\* progress was reset).
InitPercent ==
    \E t \in 1..MaxCourseLectures : \E n \in 0..t :
        /\ courses = [InitCourses EXCEPT !["c1"].courseContent =
              <<[chapterId |-> "ch1", chapterOrder |-> 1,
                 chapterContent |->
                     [i \in 1..t |-> Lecture(LectureId(i), VimeoUrl, FALSE, i)]]>>]
        /\ progress = <<[userId |-> "u1", courseId |-> "c1",
                         completedLectures |-> [i \in 1..n |-> LectureId(i)],
                         lastAccessed |-> 0,
                         completionPercentage |-> RoundPercent(n, t),
                         createdAt |-> 0,
                         updatedAt |-> 0]>>
        /\ users = SchemaUsers
        /\ purchases = <<>>
        /\ sessions = {}
        /\ InitFrames

\* The user reads the progress, or completes the next lecture of the course.
NextPercent ==
    \/ (now < MaxPercentRequests /\ GetFind(1, "u1", "c1"))
    \/ /\ now < MaxPercentRequests
       /\ Len(progress[1].completedLectures) < SumLectures(courses["c1"].courseContent)
       /\ MarkFind(1, "u1", "c1", LectureId(Len(progress[1].completedLectures) + 1))
    \/ MarkPush(1)
    \/ MarkCalc(1)
    \/ MarkUpdate(1)
    \/ GetCalc(1)
    \/ ReqReturn(1)

SpecPercent == InitPercent /\ [][NextPercent]_vars


\* Requests received in one run of the content specification.
MaxContentRequests == 2

\* The lecture data of the content requests: a valid URL, a URL of another
\* host and none, as a free preview or not.
ContentLectures ==
    {[lectureId |-> l, lectureUrl |-> url, isPreviewFree |-> free] :
        l \in Lectures, url \in {VimeoUrl, InvalidHostUrl, NoUrl},
        free \in BOOLEAN}

\* The order lists of the reorder requests: an order for one or for two
\* chapters (lectures).
ChapterOrders ==
    LET O == {[chapterId |-> ch, order |-> o] : ch \in Chapters, o \in 1..MaxChapters}
    IN {<<a>> : a \in O} \cup
       {<<ab[1], ab[2]>> : ab \in {x \in O \X O : x[1].chapterId # x[2].chapterId}}

LectureOrders ==
    LET O == {[lectureId |-> l, order |-> o] : l \in Lectures, o \in 1..MaxLectures}
    IN {<<a>> : a \in O} \cup
       {<<ab[1], ab[2]>> : ab \in {x \in O \X O : x[1].lectureId # x[2].lectureId}}

\* Content authoring and viewing, one request after the other: a request is
\* received only after the edit before it was saved.
NextContent ==
    \/ \E c \in ReqCourses, ed \in Educators, ch \in Chapters :
          now < MaxContentRequests /\ AddChapter(1, c, ed, ch)
    \/ \E c \in ReqCourses, ed \in Educators, ch \in Chapters, d \in ContentLectures :
          now < MaxContentRequests /\ AddLecture(1, c, ed, ch, d)
    \/ \E c \in ReqCourses, ed \in Educators, os \in ChapterOrders :
          now < MaxContentRequests /\ ReorderChapters(1, c, ed, os)
    \/ \E c \in ReqCourses, ed \in Educators, ch \in Chapters, os \in LectureOrders :
          now < MaxContentRequests /\ ReorderLectures(1, c, ed, ch, os)
    \/ CourseSave(1)
    \/ \E c \in ReqCourses, b \in BOOLEAN :
          now < MaxContentRequests /\ edit[1].pc = "idle" /\ GetCourseById(c, b)

SpecContent == Init /\ [][NextContent]_vars

\* Edits received in one run of the specification of interleaved edits.
MaxEditRequests == 2

\* Edits of the courses by their educators, interleaved: an edit may be
\* received while another one has read the course and not yet saved it.  A
\* reorder request gives the order of one chapter (lecture).
NextEdits ==
    \/ \E e \in Editors, c \in Courses, ch \in Chapters :
          now < MaxEditRequests /\ AddChapter(e, c, courses[c].educator, ch)
    \/ \E e \in Editors, c \in Courses, ch \in Chapters, d \in EditLectures :
          now < MaxEditRequests /\ AddLecture(e, c, courses[c].educator, ch, d)
    \/ \E e \in Editors, c \in Courses, ch \in Chapters, o \in 1..MaxChapters :
          /\ now < MaxEditRequests
          /\ ReorderChapters(e, c, courses[c].educator,
                             <<[chapterId |-> ch, order |-> o]>>)
    \/ \E e \in Editors, c \in Courses, ch \in Chapters, l \in Lectures,
             o \in 1..MaxLectures :
          /\ now < MaxEditRequests
          /\ ReorderLectures(e, c, courses[c].educator, ch,
                             <<[lectureId |-> l, order |-> o]>>)
    \/ \E e \in Editors : CourseSave(e)

SpecEdits == Init /\ [][NextEdits]_vars


\* Purchase requests received in one run of the amount specification.
MaxAmountRequests == 1
\* The course prices of the amount specification, in cents: every price up
\* to this one, and two prices of the catalogue.
MaxPriceCents == 20

\* The store with course c1 published at any of the prices and any
\* discount from 0 to 100.
InitPriced ==
    \E price \in (0..MaxPriceCents) \cup {1995, 9999}, discount \in 0..100 :
        InitStore([InitCourses EXCEPT !["c1"].coursePrice = price,
                                      !["c1"].discount = discount],
                  SchemaUsers)

\* Purchase requests for a course of any price and discount.
NextAmount ==
    \/ \E u \in ReqUsers, c \in ReqCourses :
          now < MaxAmountRequests /\ PurchaseCourse(1, u, c)
    \/ PurchaseStep(1)

SpecAmount == InitPriced /\ [][NextAmount]_vars


\* Requests received in one run of the rating specification.
MaxRatingRequests == 3

\* The users whose purchase of course c1 was completed, in the order of
\* their purchases.
EnrollOrders ==
    {<<>>} \cup {<<u>> : u \in Users} \cup
    {<<uv[1], uv[2]>> : uv \in {x \in Users \X Users : x[1] # x[2]}}

\* The store after the purchases of course c1 by the users of an order were
\* completed by their payment-succeeded events.
InitEnrolled ==
    \E s \in EnrollOrders :
        /\ courses = [InitCourses EXCEPT !["c1"].enrolledStudents = s]
        /\ users = [u \in Users |->
              [enrolledCourses |-> IF u \in Range(s) THEN <<"c1">> ELSE <<>>]]
        /\ purchases = [i \in 1..Len(s) |->
              [NewPurchase("c1", s[i], ToFixed2(InitCourses["c1"].coursePrice,
                                                InitCourses["c1"].discount))
                  EXCEPT !.status = "completed"]]
        /\ sessions = {[purchaseId |-> i,
                        unit_amount |-> UnitAmount(purchases[i].amount)] :
                            i \in 1..Len(s)}
        /\ progress = <<>>
        /\ InitFrames

\* The same with the users of the schema: the handler of each event stopped
\* after the course was saved, so the users are students of the course, no
\* user document lists it and the purchases are pending.
InitEnrolledSchema ==
    \E s \in EnrollOrders :
        /\ courses = [InitCourses EXCEPT !["c1"].enrolledStudents = s]
        /\ users = SchemaUsers
        /\ purchases = [i \in 1..Len(s) |->
              NewPurchase("c1", s[i], ToFixed2(InitCourses["c1"].coursePrice,
                                               InitCourses["c1"].discount))]
        /\ sessions = {[purchaseId |-> i,
                        unit_amount |-> UnitAmount(purchases[i].amount)] :
                            i \in 1..Len(s)}
        /\ progress = <<>>
        /\ InitFrames

\* The steps of the handling of a payment-succeeded event.
EnrollStep(h) ==
    \/ FindPurchase(h)
    \/ FindUser(h)
    \/ FindCourse(h)
    \/ SaveCourse(h)
    \/ SaveUser(h)
    \/ SavePurchase(h)
    \/ HookReturn(h)

\* Rating requests one after the other, beside the purchase of course c1 by
\* a user who has not bought it and the payment-succeeded event of a pending
\* purchase.
NextRating ==
    \* the ratings asked: the valid ones and the two next to them
    \/ \E u \in ReqUsers, c \in ReqCourses, r \in (MinRating - 1)..(MaxRating + 1) :
          now < MaxRatingRequests /\ AddUserRating(u, c, r)
    \/ RateFindUser
    \/ RateSave
    \/ RateReturn
    \/ \E u \in Users :
          /\ now < MaxRatingRequests
          /\ \A i \in 1..Len(purchases) : purchases[i].userId # u
          /\ PurchaseCourse(1, u, "c1")
    \/ PaidStep(1)
    \/ \E pid \in 1..MaxPurchases :
          /\ now < MaxRatingRequests
          /\ pid <= Len(purchases) /\ purchases[pid].status = "pending"
          /\ SessionOf(pid)
          /\ Receive(1, TRUE, "payment_intent.succeeded", pid)
    \/ EnrollStep(1)

SpecRating == (InitEnrolled \/ InitEnrolledSchema) /\ [][NextRating]_vars

\* Ratings a course holds in the average specification.
MaxRatings == 2

\* The rating lists of at most MaxRatings ratings.
RECURSIVE RatingLists(_)
RatingLists(n) ==
    IF n = 0 THEN {<<>>}
    ELSE RatingLists(n - 1) \cup
         {Append(l, [userId |-> u, rating |-> r]) :
             l \in {x \in RatingLists(n - 1) : Len(x) = n - 1},
             u \in Users, r \in MinRating..MaxRating}

\* The store with course c1 holding any of the rating lists.
InitRated ==
    \E l \in RatingLists(MaxRatings) :
        InitStore([InitCourses EXCEPT !["c1"].courseRatings = l], SchemaUsers)

\* The client computes the average rating of a course.
NextAverage == \E c \in Courses : CalculateRating(c)

SpecAverage == InitRated /\ [][NextAverage]_vars


\* Requests received in one run of the course-creation specification.
MaxCourseRequests == 3

\* The course data of the addCourse requests: the text of a course without
\* content, the text of a course with one chapter of one lecture that is a
\* free preview, and a text that is no JSON.
NewCourseData ==
    {Stringify([courseTitle |-> "JavaScript Fundamentals",
                coursePrice |-> 4999, discount |-> 20]),
     Stringify([courseTitle |-> "JavaScript Fundamentals",
                coursePrice |-> 4999, discount |-> 20,
                courseContent |->
                    <<[chapterId |-> "chapter_1", chapterOrder |-> 1,
                       chapterContent |->
                           <<Lecture("lecture_1",
                                     Url("https://", FALSE, "youtube.com",
                                         "watch?v=123"),
                                     TRUE, 1)>>]>>]),
     <<"{invalid">>}

\* Courses are created, the requests interleaved; the store accepts or fails
\* each create and the media storage each upload.  A course that was created
\* is there for the other operations: it can be viewed.
NextCourse ==
    \/ \E a \in Adders, e \in Educators, imageFile \in BOOLEAN, d \in NewCourseData :
          now < MaxCourseRequests /\ AddCourse(a, e, imageFile, d)
    \/ \E a \in Adders, ok \in BOOLEAN : AddCreate(a, ok)
    \/ \E a \in Adders, ok \in BOOLEAN : AddUpload(a, ok)
    \/ \E a \in Adders : AddSave(a)
    \/ \E a \in Adders : AddReturn(a)
    \/ \E c \in DOMAIN courses \ Courses :
          now < MaxCourseRequests /\ GetCourseById(c, FALSE)

SpecCourse == Init /\ [][NextCourse]_vars

\* Requests received in one run of the specification below.
MaxOnceRequests == 4

\* Purchases, and for each pending purchase at most one payment-succeeded
\* event, handled one after the other: no event is delivered twice and no
\* two are handled at the same time.
NextPayOnce ==
    \/ \E u \in Users, c \in Courses :
          /\ now < MaxOnceRequests /\ PurchaseRoom
          /\ hook[1].pc = "idle"
          /\ PurchaseCourse(1, u, c)
    \/ PaidStep(1)
    \/ \E pid \in 1..MaxPurchases :
          /\ now < MaxOnceRequests
          /\ pid <= Len(purchases) /\ purchases[pid].status = "pending"
          /\ SessionOf(pid)
          /\ buy[1].pc = "idle"
          /\ Receive(1, TRUE, "payment_intent.succeeded", pid)
    \/ EnrollStep(1)

SpecPayOnce == InitAnyUsers /\ [][NextPayOnce]_vars

\* Purchase requests received in one run of the specification below.
MaxLiveRequests == 2

\* The payment processor delivers a payment-succeeded or payment-failed
\* event for the checkout session of a purchase that is still pending.
DeliverTo(pid) ==
    /\ pid <= Len(purchases)
    /\ purchases[pid].status = "pending"
    /\ SessionOf(pid)
    /\ \E type \in {"payment_intent.succeeded", "payment_intent.payment_failed"} :
          Receive(1, TRUE, type, pid)

NextPayLive ==
    \/ \E u \in Users, c \in Courses :
          now < MaxLiveRequests /\ PurchaseRoom /\ PurchaseCourse(1, u, c)
    \/ PurchaseStep(1)
    \/ \E pid \in 1..MaxPurchases : DeliverTo(pid)
    \/ HookStep(1)

\* The call handled by b has stored its purchase and takes its next step:
\* the processor answers the request for a checkout session.
SessionStep(b) == \E sessionOk \in BOOLEAN : CreateSession(b, sessionOk)

\* Purchases and their payment events, the calls and the events handled one
\* after the other, where the processor answers every request for a checkout
\* session and does deliver an event for every checkout session whose
\* purchase is pending, and every handler runs to its end.  The users are
\* those of the tests: on a user document of the schema the handler of a
\* payment-succeeded event throws each time it is delivered, and the
\* deliveries never end.
SpecPayLive ==
    /\ InitStore(InitCourses, TestUsers)
    /\ [][NextPayLive]_vars
    /\ WF_vars(SessionStep(1))
    /\ \A pid \in 1..MaxPurchases : SF_vars(DeliverTo(pid))
    /\ WF_vars(HookStep(1))

\* Requests received in one run of the registration specification.
MaxUserRequests == 3

\* Users are registered, the calls interleaved, beside purchases of course c1
\* by a stored user or by u0, who is stored once registered, and the
\* payment-succeeded events of the pending purchases.  The user data name
\* u0, a user already stored, or no id, with an email of two and all names,
\* or with a name or the email missing.
NextUsers ==
    \/ \E r \in Registrars, id \in {"u0", "u1", ""}, email \in {"a@x", "b@x", ""},
           lastName \in {"Last", ""} :
          /\ now < MaxUserRequests
          /\ RegisterUser(r, [id |-> id, email |-> email, firstName |-> "First",
                              lastName |-> lastName, imageUrl |-> ""])
    \/ \E r \in Registrars, ok \in BOOLEAN : RegisterCreate(r, ok)
    \/ \E r \in Registrars : RegisterReturn(r)
    \/ \E u \in {"u0", "u1"} :
          now < MaxUserRequests /\ PurchaseRoom /\ PurchaseCourse(1, u, "c1")
    \/ PaidStep(1)
    \/ \E pid \in 1..MaxPurchases :
          /\ now < MaxUserRequests
          /\ pid <= Len(purchases) /\ purchases[pid].status = "pending"
          /\ SessionOf(pid)
          /\ Receive(1, TRUE, "payment_intent.succeeded", pid)
    \/ EnrollStep(1)

SpecUsers == InitAnyUsers /\ [][NextUsers]_vars

(* ------------------------------- claims ------------------------------- *)

Succeeded == "payment_intent.succeeded"
Terminal == {"completed", "failed"}

\* The enrolled courses of a user document as the controllers read them:
\* the enrolledCourses array, and none for a document without it.
EnrolledCoursesOf(doc) ==
    IF HasEnrolledCourses(doc) THEN doc.enrolledCourses ELSE <<>>

\* C1: once a purchase's status is completed or failed it never changes
\* again, whatever payment event is handled for it afterwards.
C1_TerminalStatusNeverChanges ==
    [][\A i \in 1..Len(purchases) :
          purchases[i].status \in Terminal =>
              purchases'[i].status = purchases[i].status]_vars

\* C2: a payment-succeeded handling that finds its purchase already completed
\* (the first handling has finished) enrolls nobody again: none of its steps
\* saves a user or a course record.
C2_ReplaySavesNoEnrollment ==
    [][\A h \in Handlers :
          (/\ hook[h].type = Succeeded
           /\ hook[h].purchaseData # <<>>
           /\ hook[h].purchaseData[1].status = "completed"
           /\ hook'[h] # hook[h])
          => (courses' = courses /\ users' = users)]_vars

\* C3: when two deliveries of the same payment-succeeded event were handled
\* concurrently (both read the purchase while it was pending) and both have
\* finished, the purchase is completed and the user is enrolled exactly once.
C3_ConcurrentDeliveriesEnrollOnce ==
    \A h1, h2 \in Handlers :
        (/\ h1 # h2
         /\ hook[h1].pc = "done" /\ hook[h2].pc = "done"
         /\ hook[h1].type = Succeeded /\ hook[h2].type = Succeeded
         /\ hook[h1].pid = hook[h2].pid
         /\ hook[h1].purchaseData # <<>> /\ hook[h2].purchaseData # <<>>
         /\ hook[h1].purchaseData[1].status = "pending"
         /\ hook[h2].purchaseData[1].status = "pending")
        => LET pd == hook[h1].purchaseData[1]
           IN /\ purchases[hook[h1].pid].status = "completed"
              /\ Count(pd.userId, courses[pd.courseId].enrolledStudents) = 1
              /\ Count(pd.courseId, EnrolledCoursesOf(users[pd.userId])) = 1

\* A step in which handler h ends: it answers, or it throws.
Ends(h) ==
    hook[h].pc \notin {"idle", "done", "thrown"} /\ hook'[h].pc \in {"done", "thrown"}

\* C4: the handling of a verified payment-succeeded event that read its
\* purchase as pending ends with the purchase completed, the user among the
\* course's enrolled students, the course among the user's enrolled courses,
\* and the acknowledgement { received: true }.
C4_SucceededCompletesAndEnrolls ==
    [][\A h \in Handlers :
          (/\ Ends(h)
           /\ hook[h].type = Succeeded
           /\ hook[h].purchaseData # <<>>
           /\ hook[h].purchaseData[1].status = "pending")
          => LET pd == hook[h].purchaseData[1]
             IN /\ purchases'[hook[h].pid].status = "completed"
                /\ pd.userId \in Range(courses'[pd.courseId].enrolledStudents)
                /\ pd.courseId \in Range(EnrolledCoursesOf(users'[pd.userId]))
                /\ hook'[h].pc = "done"
                /\ hook'[h].res = Received]_vars

\* The same for the user documents that hold the enrolledCourses array,
\* those of the repository's tests.
SucceededCompletesAndEnrollsTestUser ==
    [][\A h \in Handlers :
          (/\ Ends(h)
           /\ hook[h].type = Succeeded
           /\ hook[h].purchaseData # <<>>
           /\ hook[h].purchaseData[1].status = "pending"
           /\ HasEnrolledCourses(users[hook[h].purchaseData[1].userId]))
          => LET pd == hook[h].purchaseData[1]
             IN /\ purchases'[hook[h].pid].status = "completed"
                /\ pd.userId \in Range(courses'[pd.courseId].enrolledStudents)
                /\ pd.courseId \in Range(users'[pd.userId].enrolledCourses)
                /\ hook'[h].pc = "done"
                /\ hook'[h].res = Received]_vars

\* A handler has finished a payment-succeeded event for a purchase it read as
\* pending.
C4_Witness ==
    \E h \in Handlers :
        /\ hook[h].pc = "done"
        /\ hook[h].type = Succeeded
        /\ hook[h].purchaseData # <<>>
        /\ hook[h].purchaseData[1].status = "pending"
        /\ purchases[hook[h].pid].status = "completed"
        /\ hook[h].res = Received

\* C5: a request whose signature verification fails is answered 400 with an
\* error text at once, is never acknowledged, looks nothing up and leaves
\* every purchase, user and course record unchanged.
C5_BadSignatureRejected ==
    [][\A h \in Handlers :
          /\ (hook[h].pc = "idle" /\ hook'[h].pc # "idle" /\ ~hook'[h].sigOk)
             => /\ hook'[h].pc = "done"
                /\ hook'[h].res = WebhookError
                /\ hook'[h].purchaseData = <<>>
                /\ hook'[h].userData = <<>>
                /\ hook'[h].courseData = <<>>
                /\ UNCHANGED <<purchases, users, courses>>
          /\ (hook[h].pc # "idle" /\ ~hook[h].sigOk)
             => (hook'[h] = hook[h] \/ hook'[h] = IdleHook)]_vars

\* A request with a bad signature has been answered.
C5_Witness ==
    \E h \in Handlers :
        hook[h].pc = "done" /\ ~hook[h].sigOk /\ hook[h].res = WebhookError

\* No Progress document lists a lecture id more than once.
NoDuplicateCompleted ==
    \A i \in 1..Len(progress) :
        \A l \in Range(progress[i].completedLectures) :
            Count(l, progress[i].completedLectures) = 1

\* A markComplete that directly follows a markComplete of the same user,
\* course and lecture is being handled by process p.
RepeatedMark(p) ==
    /\ req[p].op = "mark"
    /\ req[p].pc # "idle"
    /\ lastOp = OpOf(req[p])

\* C6: with requests handled one after the other, a markComplete that directly
\* follows a markComplete of the same user, course and lecture leaves the
\* stored Progress documents unchanged, and no completed-lectures list ever
\* holds a lecture id more than once.
C6_RepeatedMarkIsIdempotent ==
    /\ []NoDuplicateCompleted
    /\ [][\A p \in Procs : RepeatedMark(p) => progress' = progress]_vars

\* The part of C6 the code keeps: the repeated markComplete changes no
\* document's user, course, completed lectures, lastAccessed, percentage or
\* createdAt, and adds or removes no document; what it writes is updatedAt.
RepeatedMarkWritesUpdatedAtOnly ==
    [][\A p \in Procs :
          RepeatedMark(p)
          => /\ Len(progress') = Len(progress)
             /\ \A i \in 1..Len(progress) :
                   progress'[i] = [progress[i] EXCEPT
                                      !.updatedAt = progress'[i].updatedAt]]_vars

\* The repeated markComplete has answered, and the document of its pair
\* carries the date of that call's update, later than its lastAccessed.
RepeatedMarkStampedUpdatedAt ==
    \E p \in Procs :
        /\ req[p].pc = "done"
        /\ RepeatedMark(p)
        /\ req[p].res.success
        /\ LET i == FindOne(req[p].userId, req[p].courseId)
           IN /\ i # 0
              /\ progress[i].completedLectures = <<req[p].lectureId>>
              /\ progress[i].updatedAt > progress[i].lastAccessed

\* C7: when two markComplete calls for the same user, course and lecture
\* have both answered with success, the stored completed-lectures list holds
\* that lecture id exactly once, however their steps were interleaved.
C7_ConcurrentMarkAddsOnce ==
    \A p, q \in Procs :
        (/\ p # q
         /\ req[p].pc = "done" /\ req[q].pc = "done"
         /\ req[p].op = "mark" /\ req[q].op = "mark"
         /\ req[p].res.success /\ req[q].res.success
         /\ OpOf(req[p]) = OpOf(req[q]))
        => LET i == FindOne(req[p].userId, req[p].courseId)
           IN i # 0 /\ Count(req[p].lectureId, progress[i].completedLectures) = 1

\* C8: there is at most one Progress document per (user, course) pair.
C8_OneProgressPerPair ==
    \A u \in Users, c \in Courses : Cardinality(Matching(u, c)) <= 1

\* Two markComplete calls both found no document for their pair; one created
\* it and the other's create was refused.
C8_Witness ==
    \E p \in Procs :
        /\ req[p].pc = "done"
        /\ req[p].op = "mark"
        /\ req[p].res.message = "duplicate key"
        /\ Cardinality(Matching(req[p].userId, req[p].courseId)) = 1

\* round(100 x n / total): the nearest whole number, a half going up.
HalfUpPercent(n, total) == (200 * n + total) \div (2 * total)

\* round(100 x |completed set in the store| / total lectures now in the
\* course), and 0 for a course without lectures or a pair without a document.
LivePercentage(u, c) ==
    LET i == FindOne(u, c)
        total == IF c \in DOMAIN courses
                 THEN SumLectures(courses[c].courseContent) ELSE 0
    IN IF i = 0 \/ total = 0 THEN 0
       ELSE HalfUpPercent(Cardinality(Range(progress[i].completedLectures)), total)

\* C9: with requests handled one after the other, the completion percentage
\* answered by markComplete and by getProgress is the one computed from the
\* stored completed set and the course's present lecture count.
C9_AnsweredPercentageIsLive ==
    \A p \in Procs :
        (/\ req[p].pc = "done"
         /\ req[p].op \in {"mark", "get"}
         /\ req[p].res.success)
        => req[p].res.completionPercentage =
               LivePercentage(req[p].userId, req[p].courseId)

\* getProgress has answered a percentage that differs from the cached one:
\* the course's lecture count changed after the last markComplete.
C9_Witness ==
    \E p \in Procs :
        /\ req[p].pc = "done"
        /\ req[p].op = "get"
        /\ req[p].res.success
        /\ FindOne(req[p].userId, req[p].courseId) # 0
        /\ req[p].res.completionPercentage > 0
        /\ req[p].res.completionPercentage #
               progress[FindOne(req[p].userId, req[p].courseId)].completionPercentage

\* C10: the percentage getAllUserProgress reports for each course is the one
\* computed from the stored completed set and the course's present lecture
\* count.
C10_DashboardPercentageIsLive ==
    \A p \in Procs :
        (req[p].pc = "done" /\ req[p].op = "all" /\ req[p].res.success)
        => \A k \in 1..Len(req[p].res.progressData) :
              req[p].res.progressData[k].completionPercentage =
                  LivePercentage(req[p].userId, req[p].res.progressData[k].courseId)

\* getAllUserProgress has answered the failure for a user who has a Progress
\* document of a course that is not stored.
DashboardFailedOnMissingCourse ==
    \E p \in Procs :
        /\ req[p].pc = "done"
        /\ req[p].op = "all"
        /\ ~req[p].res.success
        /\ req[p].res.progressData = <<>>
        /\ \E i \in 1..Len(progress) :
              /\ progress[i].userId = req[p].userId
              /\ progress[i].courseId \notin DOMAIN courses

\* getAllUserProgress has answered a course's stored title and thumbnail
\* beside a percentage that is not the live one.
DashboardAnsweredCached ==
    \E p \in Procs :
        /\ req[p].pc = "done"
        /\ req[p].op = "all"
        /\ req[p].res.success
        /\ \E k \in 1..Len(req[p].res.progressData) :
              LET e == req[p].res.progressData[k]
              IN /\ e.courseTitle = courses[e.courseId].courseTitle
                 /\ e.courseThumbnail = courses[e.courseId].courseThumbnail
                 /\ e.completionPercentage #
                       LivePercentage(req[p].userId, e.courseId)

\* C11: a reset applied for a pair that has a Progress document leaves the
\* document in place with an empty completed list and percentage 0; and a pair that
\* has a Progress document has one after every step of markComplete, reset
\* and the reads.
C11_ResetKeepsRecord ==
    /\ [][\A p \in Procs, u \in Users, c \in Courses :
             (/\ req[p].pc = "r_update"
              /\ req'[p].pc = "done"
              /\ req[p].userId = u /\ req[p].courseId = c
              /\ FindOne(u, c) # 0)
             => /\ Len(progress') = Len(progress)
                /\ FindOne(u, c)' = FindOne(u, c)
                /\ progress'[FindOne(u, c)].completedLectures = <<>>
                /\ progress'[FindOne(u, c)].completionPercentage = 0]_vars
    /\ [][\A u \in Users, c \in Courses :
             Matching(u, c) # {} => Matching(u, c)' # {}]_vars

\* A reset has answered for a pair whose document, created with one completed
\* lecture, is stored with none.
C11_Witness ==
    \E p \in Procs :
        /\ req[p].pc = "done"
        /\ req[p].op = "reset"
        /\ FindOne(req[p].userId, req[p].courseId) # 0
        /\ progress[FindOne(req[p].userId, req[p].courseId)].completedLectures = <<>>
        /\ progress[FindOne(req[p].userId, req[p].courseId)].completionPercentage = 0

\* The URL getCourseById is to answer for the stored lecture lec.
ViewerUrl(lec, isEnrolled) ==
    IF ~lec.isPreviewFree /\ ~isEnrolled THEN NoUrl ELSE lec.lectureUrl

\* C12: the course answered by getCourseById holds the stored chapters and
\* lectures; for a viewer who is not enrolled a lecture that is not a free
\* preview has an empty URL and a free preview its stored URL, and for an
\* enrolled viewer every lecture has its stored URL.
C12_ViewerUrlsBlanked ==
    contentRes.message = "courseData" =>
        LET stored == courses[contentRes.courseData.id].courseContent
            out == contentRes.courseData.courseContent
        IN /\ Len(out) = Len(stored)
           /\ \A k \in 1..Len(stored) :
                 \E i \in 1..Len(out) :
                    /\ out[i].chapterId = stored[k].chapterId
                    /\ out[i].chapterOrder = stored[k].chapterOrder
                    /\ Len(out[i].chapterContent) = Len(stored[k].chapterContent)
                    /\ \A m \in 1..Len(stored[k].chapterContent) :
                          \E j \in 1..Len(out[i].chapterContent) :
                             out[i].chapterContent[j] =
                                [stored[k].chapterContent[m] EXCEPT !.lectureUrl =
                                    ViewerUrl(stored[k].chapterContent[m],
                                              contentRes.isEnrolled)]

\* A viewer who is not enrolled was answered a course with a blanked lecture
\* and a free preview that kept its URL.
C12_Witness ==
    /\ contentRes.message = "courseData"
    /\ ~contentRes.isEnrolled
    /\ LET out == contentRes.courseData.courseContent
       IN \E i \in 1..Len(out) :
             \E j, m \in 1..Len(out[i].chapterContent) :
                /\ ~out[i].chapterContent[j].isPreviewFree
                /\ out[i].chapterContent[j].lectureUrl = NoUrl
                /\ out[i].chapterContent[m].isPreviewFree
                /\ out[i].chapterContent[m].lectureUrl # NoUrl

\* price - price x discount / 100 in cents, rounded to the cent with a half
\* cent going up, and with a half cent going to the even cent.
HalfUpCents(price, discount) == (price * (100 - discount) + 50) \div 100

HalfEvenCents(price, discount) ==
    LET n == price * (100 - discount)
    IN IF n % 100 = 50 /\ (n \div 100) % 2 = 0 THEN n \div 100
       ELSE HalfUpCents(price, discount)

\* C13: a purchase request for an existing user and course creates a pending
\* purchase whose amount is price - price x discount / 100 rounded to two
\* decimals (a half cent rounded up or to even), for every price in whole
\* cents and every discount in 0..100.
C13_AmountRoundedToCents ==
    [][Len(purchases') = Len(purchases) + 1 =>
          LET newPurchase == purchases'[Len(purchases')]
              course == courses[newPurchase.courseId]
          IN /\ newPurchase.status = "pending"
             /\ newPurchase.amount \in
                    {HalfUpCents(course.coursePrice, course.discount),
                     HalfEvenCents(course.coursePrice, course.discount)}]_vars

\* C15: the handling of a verified payment event whose purchase id matches
\* no stored purchase ends with an answer, and changes no purchase, user or
\* course record.
C15_UnknownPurchaseAnswered ==
    [][\A h \in Handlers :
          (/\ hook[h].pc \in {"findPurchase", "failFindPurchase"}
           /\ FindPurchaseById(hook[h].pid) = <<>>
           /\ hook'[h] # hook[h])
          => /\ hook'[h].pc \in {"done", "findUser", "failSavePurchase"}
             /\ hook'[h].pc = "done" => hook'[h].res # NoRes
             /\ UNCHANGED <<purchases, users, courses>>]_vars
      /\ [][\A h \in Handlers :
          (hook[h].pc # "idle" /\ hook'[h].pc = "idle") => hook[h].res # NoRes]_vars

\* The purchases no checkout session was created for.
WithoutSession == {i \in 1..Len(purchases) : \A s \in sessions : s.purchaseId # i}

\* C14: a purchase request whose checkout-session call fails answers
\* { success: false, message } and changes no user and no course record; the
\* purchase it created has no session and is never completed, so nobody is
\* enrolled through it.
C14_FailedCheckoutEnrollsNobody ==
    /\ [][\A b \in Buyers :
             (buy[b].pc = "session" /\ buy'[b].pc = "idle" /\ sessions' = sessions)
             => /\ purchaseRes' = [success |-> FALSE, body |-> "error.message"]
                /\ UNCHANGED <<courses, users, purchases>>
                /\ buy[b].newPurchase \in WithoutSession']_vars
    /\ [](\A i \in WithoutSession : purchases[i].status = "pending")

\* A checkout-session call has failed, and its purchase is pending beside a
\* purchase of the same user and course that was completed through a session.
C14_Witness ==
    \E i \in WithoutSession : \E j \in 1..Len(purchases) :
        /\ purchases[i].status = "pending"
        /\ purchases[j].status = "completed"
        /\ purchases[j].userId = purchases[i].userId
        /\ purchases[j].courseId = purchases[i].courseId
        /\ Count(purchases[i].userId,
                 courses[purchases[i].courseId].enrolledStudents) = 1

\* C16: a verified event that is not payment-succeeded changes no user and
\* no course record; a payment-failed event changes nothing but the status
\* of its purchase, which it sets to failed when it read it as pending; an
\* event of another type changes no record and is acknowledged with
\* { received: true }.
C16_OtherEventsKeepEnrollment ==
    [][\A h \in Handlers :
          /\ (/\ hook[h].type = "payment_intent.payment_failed"
              /\ hook'[h] # hook[h])
             => /\ UNCHANGED <<courses, users>>
                /\ \A i \in 1..Len(purchases) :
                      purchases'[i] # purchases[i] =>
                          /\ i = hook[h].pid
                          /\ purchases'[i] = [purchases[i] EXCEPT !.status = "failed"]
                /\ (hook[h].pc = "failSavePurchase"
                    /\ hook[h].purchaseData[1].status = "pending")
                   => /\ purchases'[hook[h].pid].status = "failed"
                      /\ hook'[h].res = Received
          /\ (hook[h].pc = "idle" /\ hook'[h].type = "other")
             => /\ hook'[h].pc = "done"
                /\ hook'[h].res = Received
                /\ UNCHANGED <<purchases, courses, users>>
          /\ (hook[h].type = "other" /\ hook'[h] # hook[h])
             => (hook'[h] = IdleHook /\ UNCHANGED <<purchases, courses, users>>)]_vars

\* A payment-failed event for a purchase read as pending has been
\* acknowledged, and the purchase is failed.
C16_Witness ==
    \E h \in Handlers :
        /\ hook[h].pc = "done"
        /\ hook[h].type = "payment_intent.payment_failed"
        /\ hook[h].purchaseData # <<>>
        /\ hook[h].purchaseData[1].status = "pending"
        /\ purchases[hook[h].pid].status = "failed"
        /\ hook[h].res = Received

InvalidDetailsRes == ContentRes(FALSE, "InValid Details")
CourseNotFoundRes == ContentRes(FALSE, "Course not found.")
NotPurchasedRes == ContentRes(FALSE, "User has not purchased this course.")

\* No rating list changes in the step.
RatingsUnchanged == \A c \in Courses : courses'[c].courseRatings = courses[c].courseRatings

\* C17: a rating request with a rating outside 1..5 is answered with the
\* invalid-details failure at once, and no step of its handling changes a
\* rating list.
C17_OutOfRangeRatingRejected ==
    [][/\ (/\ rate.pc = "idle" /\ rate'.pc # "idle"
           /\ (rate'.rating < MinRating \/ rate'.rating > MaxRating))
          => /\ rate'.pc = "done"
             /\ rate'.res = InvalidDetailsRes
             /\ courses' = courses
       /\ (/\ rate.pc # "idle"
           /\ (rate.rating < MinRating \/ rate.rating > MaxRating))
          => /\ RatingsUnchanged
             /\ rate' \in {rate, IdleRate}]_vars

\* A rating of 6 by a user who purchased the course and has rated it was
\* answered with the invalid-details failure.
C17_Witness ==
    /\ rate.pc = "done"
    /\ rate.rating = MaxRating + 1
    /\ rate.res = InvalidDetailsRes
    /\ rate.courseId \in Courses
    /\ rate.userId \in Range(courses[rate.courseId].enrolledStudents)
    /\ RatingIndex(courses[rate.courseId].courseRatings, rate.userId) # 0

\* C18: a rating request with a rating in 1..5 is answered with the
\* not-found failure when the course is absent and with the not-purchased
\* failure when the user is not among the course's enrolled students; a
\* failed request changes no rating list, and a request succeeds only for a
\* user who is among the course's enrolled students.
C18_RatingNeedsCourseAndEnrollment ==
    [][/\ (/\ rate.pc = "idle" /\ rate'.pc # "idle"
           /\ rate'.rating \in MinRating..MaxRating
           /\ rate'.courseId \notin Courses)
          => /\ rate'.pc = "done"
             /\ rate'.res = CourseNotFoundRes
             /\ courses' = courses
       /\ (/\ rate.pc = "findUser" /\ rate' # rate
           /\ rate.userId \notin Range(courses[rate.courseId].enrolledStudents))
          => /\ rate'.pc = "done"
             /\ rate'.res = NotPurchasedRes
             /\ courses' = courses
       /\ (rate'.pc = "done" /\ ~rate'.res.success) => RatingsUnchanged
       /\ (rate'.pc = "done" /\ rate'.res.success)
          => rate'.userId \in Range(courses'[rate'.courseId].enrolledStudents)]_vars

\* The same for the user documents that hold the enrolledCourses array,
\* those of the repository's tests.
RatingNeedsCourseAndEnrollmentTestUser ==
    [][/\ (/\ rate.pc = "findUser" /\ rate' # rate
           /\ ~IncludesThrows(rate.userId)
           /\ rate.userId \notin Range(courses[rate.courseId].enrolledStudents))
          => /\ rate'.pc = "done"
             /\ rate'.res = NotPurchasedRes
             /\ courses' = courses
       /\ (rate'.pc = "done" /\ ~rate'.res.success) => RatingsUnchanged
       /\ (rate'.pc = "done" /\ rate'.res.success)
          => rate'.userId \in Range(courses'[rate'.courseId].enrolledStudents)]_vars

\* A student of the course whose user document has no enrolledCourses was
\* answered the message of a TypeError.
EnrolledStudentCannotRate ==
    /\ rate.pc = "done"
    /\ rate.rating \in MinRating..MaxRating
    /\ rate.courseId \in Courses
    /\ rate.userId \in Range(courses[rate.courseId].enrolledStudents)
    /\ rate.res = ContentRes(FALSE, TypeErrorMessage)

\* A valid rating by a user who is not among the course's enrolled students
\* was answered with the not-purchased failure.
C18_Witness ==
    /\ rate.pc = "done"
    /\ rate.rating \in MinRating..MaxRating
    /\ rate.courseId \in Courses
    /\ rate.userId \in Users
    /\ rate.userId \notin Range(courses[rate.courseId].enrolledStudents)
    /\ rate.res = NotPurchasedRes

\* The positions of the ratings of user u in a rating list.
RatingsOf(ratings, u) == {i \in 1..Len(ratings) : ratings[i].userId = u}

\* C19: with rating requests handled one after the other, a rating list
\* holds at most one rating of a user; a successful request leaves the list
\* with the user's rating at the value of the request and the ratings of the
\* other users as they were; and nothing else changes a rating list.
C19_OneRatingPerUserLastWins ==
    /\ [](\A c \in Courses, u \in Users :
             Cardinality(RatingsOf(courses[c].courseRatings, u)) <= 1)
    /\ [][/\ (rate.pc = "save" /\ rate'.pc = "done")
              => LET old == courses[rate.courseId].courseRatings
                     new == courses'[rate.courseId].courseRatings
                 IN /\ rate'.res.success
                    /\ \E i \in 1..Len(new) :
                          /\ RatingsOf(new, rate.userId) = {i}
                          /\ new[i].rating = rate.rating
                    /\ Len(new) \in {Len(old), Len(old) + 1}
                    /\ \A i \in 1..Len(old) :
                          old[i].userId # rate.userId => new[i] = old[i]
           /\ ~RatingsUnchanged => (rate.pc = "save" /\ rate'.pc = "done")]_vars

\* A user's second rating has replaced the first, beside the rating of
\* another user.
C19_Witness ==
    /\ rate.pc = "done"
    /\ rate.res.success
    /\ rate.existingRatingIndex > 0
    /\ LET ratings == courses[rate.courseId].courseRatings
       IN /\ Len(ratings) = 2
          /\ ratings[rate.existingRatingIndex].rating = rate.rating
          /\ rate.course[1].courseRatings[rate.existingRatingIndex].rating # rate.rating

RECURSIVE SumRatings(_)
SumRatings(ratings) ==
    IF ratings = <<>> THEN 0 ELSE Head(ratings).rating + SumRatings(Tail(ratings))

\* C20: the average rating computed for a course is the sum of the ratings
\* of its rating list divided by their number, and 0 for an empty list.
C20_AverageIsMean ==
    [][average' # average =>
          LET ratings == courses[average'.courseId].courseRatings
          IN IF ratings = <<>> THEN average'.total = 0
             ELSE average'.total * Len(ratings) =
                      SumRatings(ratings) * average'.count]_vars

\* The orders of the chapters of a course content, of the lectures of a chapter.
ChapterOrdersOf(content) == {content[i].chapterOrder : i \in 1..Len(content)}
LectureOrdersOf(lectures) == {lectures[i].lectureOrder : i \in 1..Len(lectures)}

\* The highest of a set of orders, 0 for none.
Highest(orders) ==
    IF orders = {} THEN 0 ELSE CHOOSE m \in orders : \A o \in orders : o <= m

\* The save of the edit of the given name handled by e was applied in the step.
Saved(e, name) ==
    edit[e].pc = "save" /\ edit[e].op = name /\ edit'[e].pc = "idle"

\* The list without its last element.
AllButLast(s) == SubSeq(s, 1, Len(s) - 1)

OverlappingAddsShareOrder ==
    \E c \in Courses :
        LET content == courses[c].courseContent
        IN /\ Len(content) = 2
           /\ content[1].chapterOrder = content[2].chapterOrder

LectureAddedAfterReorder ==
    /\ lastOp[1] = "addLecture"
    /\ contentRes = ContentRes(TRUE, "Lecture added")
    /\ \E k \in 1..Len(courses[lastOp[3]].courseContent) :
          LET lectures == courses[lastOp[3]].courseContent[k].chapterContent
          IN /\ Len(lectures) = 3
             /\ lectures[3].lectureOrder = 4

\* /^(https?:\/\/)?(www\.)?(youtube\.com|youtu\.be)\/.+$/ and
\* /^(https?:\/\/)?(www\.)?(vimeo\.com)\/.+$/
MatchesYoutube(url) ==
    /\ url.scheme \in {"", "http://", "https://"}
    /\ url.host \in {"youtube.com", "youtu.be"}
    /\ url.path # ""
MatchesVimeo(url) ==
    /\ url.scheme \in {"", "http://", "https://"}
    /\ url.host = "vimeo.com"
    /\ url.path # ""

\* The reasons for which a content mutation is rejected.
CourseAbsentOrNotEducator(c, e) ==
    c \notin DOMAIN courses \/ courses[c].educator # e
ChapterAbsent(c, ch) ==
    c \in DOMAIN courses /\ \A i \in 1..Len(courses[c].courseContent) :
                        courses[c].courseContent[i].chapterId # ch
UrlRejected(d) ==
    d.lectureUrl = NoUrl \/ (~MatchesYoutube(d.lectureUrl) /\ ~MatchesVimeo(d.lectureUrl))

\* The request of the given name for course c was answered with a failure
\* in the step, nothing was stored and nothing goes on to be saved.
Rejected(name, c) ==
    /\ ~contentRes'.success
    /\ contentRes'.message # "none"
    /\ lastOp' = <<name, "none", c, "none">>
    /\ courses' = courses
    /\ edit' = edit

\* The name and the course of the content request received in the step by
\* editor e: those of the frame that goes on to the save, else those of the
\* answer.
NameReceived(e) == IF edit'[e] # edit[e] THEN edit'[e].op ELSE lastOp'[1]
CourseReceived(e) == IF edit'[e] # edit[e] THEN edit'[e].courseId ELSE lastOp'[3]

\* C22: a content mutation that is rejected stores nothing and is answered
\* with a failure: each of the four mutations for an absent course or a
\* caller who is not the course's educator, addLecture and reorderLectures
\* for an absent chapter, addLecture for a URL that is missing or matches
\* neither the YouTube nor the Vimeo pattern.  A step that receives a request
\* either is the rejection, or is the step of no request that is to be
\* rejected.
C22_RejectedMutationStoresNothing ==
    [][now' = now + 1 =>
       \A e \in Editors : \A c \in ReqCourses \cap {CourseReceived(e)} :
       /\ NameReceived(e) = "addChapter" =>
          \/ Rejected("addChapter", c)
          \/ \A ed \in Educators, ch \in Chapters :
                ~(/\ CourseAbsentOrNotEducator(c, ed)
                  /\ AddChapter(e, c, ed, ch))
       /\ NameReceived(e) = "addLecture" =>
          \/ Rejected("addLecture", c)
          \/ \A ed \in Educators, ch \in Chapters, d \in ContentLectures :
                ~(/\ \/ CourseAbsentOrNotEducator(c, ed)
                     \/ ChapterAbsent(c, ch)
                     \/ UrlRejected(d)
                  /\ AddLecture(e, c, ed, ch, d))
       /\ NameReceived(e) = "reorderChapters" =>
          \/ Rejected("reorderChapters", c)
          \/ \A ed \in Educators, os \in ChapterOrders :
                ~(/\ CourseAbsentOrNotEducator(c, ed)
                  /\ ReorderChapters(e, c, ed, os))
       /\ NameReceived(e) = "reorderLectures" =>
          \/ Rejected("reorderLectures", c)
          \/ \A ed \in Educators, ch \in Chapters, os \in LectureOrders :
                ~(/\ (CourseAbsentOrNotEducator(c, ed) \/ ChapterAbsent(c, ch))
                  /\ ReorderLectures(e, c, ed, ch, os))]_vars

\* An addLecture by the course's educator for a chapter of the course was
\* answered with the invalid-URL failure.
C22_Witness ==
    /\ lastOp[1] = "addLecture"
    /\ lastOp[3] \in Courses
    /\ contentRes = ContentRes(FALSE, "Invalid video URL")

\* The order a list of orders gives for an id (the lists name an id once).
Listed(os, field, id) == \E k \in 1..Len(os) : os[k][field] = id
Given(os, field, id) == os[CHOOSE k \in 1..Len(os) : os[k][field] = id].order

\* What a reorder is to store: each chapter (lecture) whose id is listed with
\* its order set to the value given, every other one as it was.
Reordered(items, os, idField, orderField) ==
    [i \in 1..Len(items) |->
        IF Listed(os, idField, items[i][idField])
        THEN [items[i] EXCEPT ![orderField] = Given(os, idField, items[i][idField])]
        ELSE items[i]]

\* No two elements of the list carry the same id.
DistinctIds(items, idField) ==
    \A i, j \in 1..Len(items) : items[i][idField] = items[j][idField] => i = j

\* A reorder that is saved succeeds and stores what Reordered says of the
\* stored chapters (lectures) that satisfy Pre.
ReorderStores(PreChapters(_, _), PreLectures(_, _)) ==
    \A e \in Editors :
    /\ (/\ Saved(e, "reorderChapters")
        /\ PreChapters(courses[edit[e].courseId].courseContent, edit[e]))
          => /\ contentRes' = ContentRes(TRUE, "Chapters reordered")
             /\ courses' = [courses EXCEPT ![edit[e].courseId].courseContent =
                    Reordered(@, edit[e].orders, "chapterId", "chapterOrder")]
    /\ (/\ Saved(e, "reorderLectures")
        /\ PreLectures(courses[edit[e].courseId].courseContent[
                           edit[e].chapterIndex].chapterContent, edit[e]))
          => /\ contentRes' = ContentRes(TRUE, "Lectures reordered")
             /\ courses' = [courses EXCEPT
                    ![edit[e].courseId].courseContent[edit[e].chapterIndex].chapterContent =
                        Reordered(@, edit[e].orders, "lectureId", "lectureOrder")]

\* The orders the frame f sends, applied to the stored elements, leave the
\* orders the handler assigned: no other edit has changed an order of the
\* elements since the frame read them.
UnchangedSinceRead(items, f, orderField) ==
    LET local == IF f.op = "reorderChapters" THEN f.course[1].courseContent
                 ELSE f.course[1].courseContent[f.chapterIndex].chapterContent
    IN /\ Len(items) = Len(local)
       /\ \A i \in 1..Len(items) :
             (~\E x \in f.set : x.index = i)
                => items[i][orderField] = local[i][orderField]

AnyChapters(content, f) == TRUE
AnyLectures(lectures, f) == TRUE
DistinctChapterIds(content, f) ==
    DistinctIds(content, "chapterId") /\ UnchangedSinceRead(content, f, "chapterOrder")
DistinctLectureIds(lectures, f) ==
    DistinctIds(lectures, "lectureId") /\ UnchangedSinceRead(lectures, f, "lectureOrder")

\* C23: reorderChapters and reorderLectures set the order of every chapter
\* (lecture) whose id is listed to the value given for it, skip the listed
\* ids that do not exist and still succeed, and leave the order of the
\* chapters (lectures) not listed and every other field as they were.
C23_ReorderSetsListedOrders == [][ReorderStores(AnyChapters, AnyLectures)]_vars

\* The same, for a course whose chapter ids are distinct and a chapter whose
\* lecture ids are distinct, when no other edit of the orders was saved
\* between the reorder's read and its save.
ReorderSetsListedOrdersOfDistinctIds ==
    [][ReorderStores(DistinctChapterIds, DistinctLectureIds)]_vars

\* C24: when the thumbnail upload fails, addCourse answers with a failure
\* and the store holds no course created by the request.
C24_FailedUploadCreatesNoCourse ==
    \A a \in Adders :
        (add[a].pc = "done" /\ add[a].res.message = "Cloudinary upload failed")
           => /\ ~add[a].res.success
              /\ add[a].newCourse \notin DOMAIN courses

\* No webhook delivery is being handled between its first read and its last save.
NoHandlerRunning == \A h \in Handlers : hook[h].pc \in {"idle", "done"}

HasCompletedPurchase(u, c) ==
    \E i \in 1..Len(purchases) :
        /\ purchases[i].userId = u
        /\ purchases[i].courseId = c
        /\ purchases[i].status = "completed"

\* C25: whenever no webhook delivery is being handled, for every user u and
\* course c the three facts coincide: u is among c's enrolled students, c is
\* among u's enrolled courses, and a purchase of c by u is completed.
C25_EnrollmentMatchesCompletedPurchase ==
    NoHandlerRunning =>
        \A u \in Users, c \in Courses :
            /\ (u \in Range(courses[c].enrolledStudents))
                  <=> (c \in Range(EnrolledCoursesOf(users[u])))
            /\ (u \in Range(courses[c].enrolledStudents))
                  <=> HasCompletedPurchase(u, c)

\* C26: after any purchases and payment events, a user appears at most once
\* among a course's enrolled students and a course at most once among a
\* user's enrolled courses, also when the same user bought the same course
\* twice and a payment-succeeded event arrived for each purchase.
C26_EnrolledAtMostOnce ==
    \A u \in Users, c \in Courses :
        /\ Count(u, courses[c].enrolledStudents) <= 1
        /\ Count(c, EnrolledCoursesOf(users[u])) <= 1

\* C27: the completion percentage stored in a Progress document and the one
\* answered by markLectureAsComplete and getUserCourseProgress lie between 0
\* and 100, whatever lecture ids were marked and whatever content was edited.
C27_PercentageWithinBounds ==
    /\ \A i \in 1..Len(progress) : progress[i].completionPercentage \in 0..100
    /\ \A p \in Procs :
          (req[p].pc = "done" /\ req[p].op \in {"mark", "get"})
             => req[p].res.completionPercentage \in 0..100

\* C28: the unit_amount asked of the payment processor for a checkout
\* session, in cents, is 100 times the amount of the session's purchase
\* (amounts are held in cents, so the two numbers are equal).
C28_UnitAmountIsAmountInCents ==
    \A s \in sessions : s.unit_amount = purchases[s.purchaseId].amount

\* No progress request is between its first read and its last write.
NoProgressRunning == \A p \in Procs : req[p].pc \in {"idle", "done"}

\* round(100 x n / total lectures of course c), 0 for a course without lectures.
PercentOf(n, c) ==
    LET total == SumLectures(courses[c].courseContent)
    IN IF total = 0 THEN 0 ELSE HalfUpPercent(n, total)

\* C29: with the course content left as it is, whenever no progress request
\* is being handled, the completionPercentage cached in a Progress document
\* is round(100 x |completedLectures| / total lectures of the course), for
\* every interleaving of concurrent markLectureAsComplete and
\* resetCourseProgress calls; the completed lectures are counted as the code
\* counts them (the length of the list) or as a set.
C29_CachedPercentageIsCurrent ==
    NoProgressRunning =>
        \A i \in 1..Len(progress) :
            progress[i].completionPercentage \in
                {PercentOf(Len(progress[i].completedLectures), progress[i].courseId),
                 PercentOf(Cardinality(Range(progress[i].completedLectures)),
                           progress[i].courseId)}

\* C30: every purchase created pending is completed or failed in the end,
\* given that the processor delivers a payment event for every checkout
\* session it created and that every handler runs to its end.
C30_PendingPurchaseSettles ==
    \A i \in 1..MaxPurchases :
        [](i <= Len(purchases)
              => <>(i <= Len(purchases) /\ purchases[i].status \in Terminal))

\* The same for the purchases whose checkout session was created.
PurchaseWithSessionSettles ==
    \A i \in 1..MaxPurchases :
        []((i <= Len(purchases) /\ \E s \in sessions : s.purchaseId = i)
              => <>(i <= Len(purchases) /\ purchases[i].status \in Terminal))


====
